---- MODULE Spec2Model ----
(***************************************************************************)
(* State-machine model of the myClaw trading loop.                         *)
(*                                                                         *)
(* One trading cycle is the sequence collector -> brain (signal arbiter)   *)
(* -> executor -> monitor (supervisor).  The JSON files under state/ and   *)
(* signals/ are the variables; every handler is translated from its        *)
(* Python source.  Handlers that loop (the arbiter over strategies, the    *)
(* executor over signals, the emergency close over positions) advance a    *)
(* program counter so that each iteration is one step.                     *)
(*                                                                         *)
(* Abstractions (all inputs are drawn from small sets):                    *)
(*  - money is in whole USD;                                               *)
(*  - a price is a level relative to the entry of the position it is       *)
(*    compared with: MidPx is the entry price, LowPx is at or below the    *)
(*    lower barrier of the position, HighPx at or above the upper one,     *)
(*    NoPx (0) is a missing mid price;                                     *)
(*  - the clock runs over a few instants of each day (minutes since the    *)
(*    start of day 0, which is a Thursday).                                *)
(*                                                                         *)
(* The handlers are the same in every specification; a specification picks *)
(* the configuration and the part of the environment it varies:            *)
(*  - SpecSwitch:  the kill switch (fresh deployment, context failures,    *)
(*                 loss limit trips), ETH strategy only;                   *)
(*  - SpecArbiter: BTC RubberWall, BTC and HYPE Wave Rider over a trading  *)
(*                 session, flat account;                                  *)
(*  - SpecLedger:  the daily P&L record over day changes, SOL strategy     *)
(*                 only.                                                   *)
(*  - SpecAdaptive, SpecExecutor: the Wave Rider's adaptive stop and the   *)
(*                 executor's entry gate;                                  *)
(*  - SpecConcurrent: all four strategies finding an entry in the cycles   *)
(*                 of Thursday 15:00 and 15:05;                            *)
(*  - SpecRetried: the strategy run failing part-way and being retried,    *)
(*                 HYPE Wave Rider and ETH time-cut positions.             *)
(* Functions that are checked on their own (record_trade, the file         *)
(* writers, call_with_retry, sync_positions, _build_next_cache,            *)
(* place_market_order, merge_signals, the archiver, the kill-switch file   *)
(* under concurrent writers, the spike scan's two paths) each have a       *)
(* variable of their own and a specification that runs them from the idle  *)
(* cycle.                                                                  *)
(***************************************************************************)
EXTENDS Integers, Sequences, FiniteSets, TLC

\* ---------------------------------------------------------------- bounds
MaxDay == 1            \* days 0..MaxDay are modelled
ExitBars == 2          \* exit_bars carried by time_cut signals
MaxAbsRealized == 6    \* cap on |realized_pnl| accumulated in one day

\* ------------------------------------------------------- program constants
_AGENT_FAILURE_THRESHOLD == 3
DailyLossPct == 5
MaxDrawdownPct == 15
ToleranceUsd == 1
Thursday == 3          \* datetime.weekday() of a Thursday

StartWeekday == Thursday      \* day 0 is a Thursday

\* ------------------------------------------------------------ input sets
Symbols == {"BTC", "ETH", "SOL", "HYPE"}
RubberSyms == {"BTC", "ETH", "SOL"}
WrSyms == {"BTC", "HYPE"}
SymOrder == <<"BTC", "ETH", "SOL", "HYPE">>

NoPx == 0
LowPx == 1
MidPx == 2
HighPx == 3
Levels == {LowPx, MidPx, HighPx}

DayMinutes == 1440
\* The instants of the days 0..MaxDay at the given minutes of the day.
Timeline(minutes) == {d * DayMinutes + m : d \in 0..MaxDay, m \in minutes}

Abs(x) == IF x < 0 THEN -x ELSE x
Max(a, b) == IF a >= b THEN a ELSE b
Min(a, b) == IF a <= b THEN a ELSE b

VARIABLES
    pc,          \* position in the cycle
    now,         \* UTC clock, minutes since day 0 00:00
    ks,          \* state/kill_switch.json
    exPos,       \* positions on the exchange, per symbol
    positions,   \* state/positions.json, per symbol
    rubberMeta,  \* state/<sym>_rubber_meta.json
    wrMeta,      \* state/btc_wave_rider_meta.json, hype_wave_rider_meta.json
    revPending,  \* state/btc_wr_rev_pending.json
    sigFile,     \* signals/signals.json
    daily,       \* state/daily_pnl.json
    failCount,   \* state/agent_failure_count.json: consecutive_failures
    sigList,     \* _run_rubber_wall: signals_list
    scanFailed,  \* _run_rubber_wall: scan_failed_count
    execIdx,     \* execute_signals: index of the next signal
    results,     \* execute_signals: results
    closeQueue,  \* _close_all_positions: symbols still to close
    orders,      \* exchange calls (market_open / market_close) of the running handler
    lastOp,      \* the handler that took the last step
    flipped,     \* the supervisor activated the switch and nobody deactivated it
    heldBars,    \* arbiter cycles since a time_cut entry opened the position
    wrRun,       \* the market data read by the last run of WaveRiderRun
    gateRun,     \* the checks that failed in the last run of the entry gate
    journal,     \* state/trade_history.json and the processes running record_trade
    disk,        \* the files written by atomic_write_json / write_text and a reader
    retry,       \* a call of call_with_retry in progress
    syncRun,     \* sync_positions run twice on its own
    cache,       \* the ThresholdCache built by _build_next_cache
    order,       \* a call of HLClient.place_market_order and its result
    arbiter,     \* a call of merge_signals and the batch it returned
    archive,     \* the archived market-data snapshots and what load_history read
    strategyTry, \* the failed attempts of the strategy run of this cycle
    flag,        \* kill_switch.json and the processes writing it
    scan         \* a spike scan decided on the fast and on the slow path

\* The files and locals of the trading cycle.
cycleVars == <<pc, now, ks, exPos, positions, rubberMeta, wrMeta, revPending,
               sigFile, daily, failCount, sigList, scanFailed, execIdx,
               results, closeQueue, orders, lastOp, flipped, heldBars, wrRun,
               gateRun>>

\* The state of the components that are exercised on their own.
libVars == <<journal, disk, retry, syncRun, cache, order, arbiter, archive, strategyTry, flag, scan>>

\* Everything but one component.
besidesJournal == <<cycleVars, disk, retry, syncRun, cache, order, arbiter, archive, strategyTry, flag, scan>>
besidesDisk == <<cycleVars, journal, retry, syncRun, cache, order, arbiter, archive, strategyTry, flag, scan>>
besidesRetry == <<cycleVars, journal, disk, syncRun, cache, order, arbiter, archive, strategyTry, flag, scan>>
besidesSyncRun == <<cycleVars, journal, disk, retry, cache, order, arbiter, archive, strategyTry, flag, scan>>
besidesCache == <<cycleVars, journal, disk, retry, syncRun, order, arbiter, archive, strategyTry, flag, scan>>
besidesOrder == <<cycleVars, journal, disk, retry, syncRun, cache, arbiter, archive, strategyTry, flag, scan>>
besidesArbiter == <<cycleVars, journal, disk, retry, syncRun, cache, order, archive, strategyTry, flag, scan>>
besidesArchive == <<cycleVars, journal, disk, retry, syncRun, cache, order, arbiter, strategyTry, flag, scan>>
besidesStrategyTry == <<cycleVars, journal, disk, retry, syncRun, cache, order, arbiter, archive, flag, scan>>
besidesFlag == <<cycleVars, journal, disk, retry, syncRun, cache, order, arbiter, archive, strategyTry, scan>>
besidesScan == <<cycleVars, journal, disk, retry, syncRun, cache, order, arbiter, archive, strategyTry, flag>>

vars == <<cycleVars, libVars>>

\* ------------------------------------------------------------------ clock
Today == now \div DayMinutes

\* ============================================================ kill switch
KsAbsent == [exists |-> FALSE, enabled |-> FALSE, warning |-> FALSE]

is_active_absent_off(k) == IF k.exists THEN k.enabled ELSE FALSE

\* is_active(): data.get("enabled", False); a missing file means ACTIVE.
is_active(k) == IF k.exists THEN k.enabled ELSE TRUE

activate_warning_only(k) ==
    [exists |-> TRUE, enabled |-> IF k.exists THEN k.enabled ELSE FALSE,
     warning |-> TRUE]

\* activate(reason): the file is rewritten with enabled = True only.
activate(k) == [exists |-> TRUE, enabled |-> TRUE, warning |-> FALSE]

\* deactivate(): the file is rewritten with enabled = False only.
deactivate(k) == [exists |-> TRUE, enabled |-> FALSE, warning |-> FALSE]

\* StateManager.get_kill_switch_status()["enabled"]: a missing file reads
\* as {"enabled": False}.
get_kill_switch_status(k) == IF k.exists THEN k.enabled ELSE FALSE

\* RiskManager.check_kill_switch(): a missing file reads as False.
check_kill_switch(k) == IF k.exists THEN k.enabled ELSE FALSE

\* The warning write shared by enter_safe_hold and
\* _trigger_agent_failure_alert: read the file ({} when missing), set the
\* warning fields, write it back.  A file created here has no "enabled" key,
\* which reads as enabled = False.
SetWarning(k) == [exists |-> TRUE,
                  enabled |-> IF k.exists THEN k.enabled ELSE FALSE,
                  warning |-> TRUE]

enter_safe_hold_ks(k) == SetWarning(k)
_trigger_agent_failure_alert(k) == SetWarning(k)

\* =============================================================== daily P&L
NoDaily == [exists |-> FALSE, date |-> -1, sod |-> 0, realized |-> 0,
            unrealized |-> 0, equity |-> 0, peak |-> 0]

NoApi == [given |-> FALSE, val |-> 0]
Api(v) == [given |-> TRUE, val |-> v]

update_daily_pnl_peak_equity(d, today, equity, realized_pnl, api) ==
    LET p0 == IF d.exists /\ d.date = today
              THEN d
              ELSE [exists |-> TRUE, date |-> today, sod |-> equity,
                    realized |-> 0, unrealized |-> 0, equity |-> equity,
                    peak |-> equity]
        realized == p0.realized + realized_pnl
        unrealized == IF api.given THEN api.val
                      ELSE equity - p0.sod - realized
    IN [exists |-> TRUE, date |-> p0.date, sod |-> p0.sod,
        realized |-> realized, unrealized |-> unrealized,
        equity |-> equity, peak |-> Max(p0.peak, equity)]

\* StateManager.update_daily_pnl(equity, realized_pnl, api_unrealized_pnl)
update_daily_pnl(d, today, equity, realized_pnl, api) ==
    LET p0 == IF d.exists /\ d.date = today
              THEN d
              ELSE [exists |-> TRUE, date |-> today, sod |-> equity,
                    realized |-> 0, unrealized |-> 0, equity |-> equity,
                    peak |-> equity]
        realized == p0.realized + realized_pnl
        start_equity == p0.sod
        unrealized == IF api.given THEN api.val
                      ELSE equity - start_equity - realized
        realized_equity == start_equity + realized
    IN [exists |-> TRUE, date |-> p0.date, sod |-> p0.sod,
        realized |-> realized, unrealized |-> unrealized,
        equity |-> equity, peak |-> Max(p0.peak, realized_equity)]

\* StateManager.reconcile_daily_unrealized(positions, tolerance_usd)
\* pos_upnl is the sum of unrealized_pnl over the positions passed in.
reconcile_daily_unrealized(d, pos_upnl) ==
    IF Abs(pos_upnl - d.unrealized) < ToleranceUsd
    THEN d
    ELSE [d EXCEPT !.exists = TRUE,
                   !.unrealized = pos_upnl,
                   !.equity = d.sod + d.realized + pos_upnl]

\* ================================================================= signals
\* One entry of signals.json "signals" (the fields the executor reads).
Sig(sym, action, pattern, exit_mode, sl, tp) ==
    [symbol |-> sym, action |-> action, pattern |-> pattern,
     exit_mode |-> exit_mode, sl |-> sl, tp |-> tp]

HoldPosition(sym, pattern) == Sig(sym, "hold_position", pattern, "", 0, 0)
CloseSig(sym, pattern) == Sig(sym, "close", pattern, "", 0, 0)
HoldSig(sym) == Sig(sym, "hold", "", "", 0, 0)

NoSigFile == [exists |-> FALSE, action_type |-> "hold", signals |-> <<>>]

\* _fallback_output(symbols, reason): one hold signal per symbol.
_fallback_output(symbols) ==
    [exists |-> TRUE, action_type |-> "hold",
     signals |-> [i \in 1..Len(symbols) |-> HoldSig(symbols[i])]]

\* _signals_to_merged(signals): action_type is "trade" unless every signal
\* is hold_position; the signals keep their order.
_signals_to_merged(signals) ==
    [exists |-> TRUE,
     action_type |-> IF \E i \in 1..Len(signals) :
                          signals[i].action # "hold_position"
                     THEN "trade" ELSE "hold",
     signals |-> signals]

\* enter_safe_hold: signals.json is overwritten with an empty hold batch.
SafeHoldPayload == [exists |-> TRUE, action_type |-> "hold", signals |-> <<>>]

\* ============================================================ rubber exits
NoMeta == [direction |-> "", pattern |-> "", exit_mode |-> "",
           exit_bars |-> 0, bar_count |-> 0, sl |-> 0, tp |-> 0]

\* _has_live_position(symbol): positions.json lists symbol with size != 0.
_has_live_position(pos, sym) == pos[sym] # "none"

\* _has_rubber_position(symbol): rubber meta with a direction, else a live
\* position.
_has_rubber_position(metas, pos, sym) ==
    \/ metas[sym].direction # ""
    \/ _has_live_position(pos, sym)

\* _check_rubber_exits(symbol, context): returns the exit signals (0 or 1)
\* and the meta file as it leaves it (bar_count is persisted only while the
\* time cut is pending).
_check_rubber_exits(sym, meta, pos, midv) ==
    IF meta.direction = ""
    THEN [sigs |-> IF _has_live_position(pos, sym)
                   THEN <<HoldPosition(sym, "unknown")>> ELSE <<>>,
          meta |-> meta]
    ELSE IF midv <= 0
    THEN [sigs |-> <<>>, meta |-> meta]
    ELSE
    LET slHit == /\ meta.sl > 0
                 /\ \/ meta.direction = "long" /\ midv <= meta.sl
                    \/ meta.direction = "short" /\ midv >= meta.sl
        tpHit == /\ ~slHit
                 /\ meta.exit_mode = "tp_sl"
                 /\ meta.tp > 0
                 /\ \/ meta.direction = "long" /\ midv >= meta.tp
                    \/ meta.direction = "short" /\ midv <= meta.tp
        timeCheck == ~slHit /\ ~tpHit /\ meta.exit_mode = "time_cut"
                     /\ meta.exit_bars > 0
        bar_count == meta.bar_count + 1
    IN  IF timeCheck /\ bar_count < meta.exit_bars
        THEN [sigs |-> <<HoldPosition(sym, meta.pattern)>>,
              meta |-> [meta EXCEPT !.bar_count = bar_count]]
        ELSE IF slHit \/ tpHit \/ timeCheck
        THEN [sigs |-> <<CloseSig(sym, meta.pattern)>>, meta |-> meta]
        ELSE [sigs |-> <<HoldPosition(sym, meta.pattern)>>, meta |-> meta]

\* The entry signals the scan of each rubber strategy can return
\* (BtcRubberWall.scan, EthRubberBand.scan, SolRubberWall.scan): the
\* direction and the exit mode; "none" is no signal.  BTC zone signals carry
\* no "pattern" key; BTC pattern D (quiet_long) carries "D_quiet_long".
ZoneChoices == {"none", "long_time_cut", "short_time_cut"}

ScanChoices(sym) ==
    IF sym = "BTC" THEN ZoneChoices \cup {"long_quiet"}
    ELSE IF sym = "ETH" THEN {"none", "long_time_cut", "short_time_cut"}
    ELSE {"none", "short_tp_sl", "short_time_cut"}

ScanSignal(sym, choice) ==
    LET dir == IF choice \in {"long_time_cut", "long_quiet"} THEN "long"
               ELSE "short"
        mode == IF choice = "short_tp_sl" THEN "tp_sl" ELSE "time_cut"
        pattern == IF sym # "BTC" THEN "spike"
                   ELSE IF choice = "long_quiet" THEN "D_quiet_long" ELSE ""
    IN Sig(sym, dir, pattern, mode,
           IF dir = "long" THEN LowPx ELSE HighPx,
           IF dir = "long" THEN HighPx ELSE LowPx)

\* One symbol's section of _run_rubber_wall: exit check, then the new-entry
\* scan, which is dropped when a position is open or an exit is in progress.
\* candles = FALSE is "no 5m candles" (scan_failed_count += 1).
RubberSection(sym, metas, pos, list, failed, midv, candles, choice) ==
    LET ex == _check_rubber_exits(sym, metas[sym], pos, midv)
        metas2 == [metas EXCEPT ![sym] = ex.meta]
        list2 == list \o ex.sigs
        has_pos == _has_rubber_position(metas2, pos, sym)
        emit == candles /\ choice # "none" /\ ~has_pos /\ ex.sigs = <<>>
    IN [metas |-> metas2,
        list |-> IF emit THEN Append(list2, ScanSignal(sym, choice)) ELSE list2,
        failed |-> IF candles THEN failed ELSE failed + 1]

\* ============================================================== Wave Rider
NoWr == [phase |-> "", pattern |-> "", direction |-> "", entry |-> 0,
         sl |-> 0, tp |-> 0]
NoPending == -1

\* WaveRider.decide_entry(open_move), open_move in basis points:
\* up_large_th 0.6%, down_large_th 0.8%, up_medium_th 0.2%.
decide_entry(open_move) ==
    IF open_move >= 60 THEN <<"long", "wr_up_large">>
    ELSE IF open_move <= -80 THEN <<"short", "wr_down_large">>
    ELSE IF 20 <= open_move /\ open_move < 60 THEN <<"short", "wr_up_medium_fade">>
    ELSE <<"", "">>

\* WaveRider.__init__ defaults, in basis points of the price (sl_pct,
\* rev_tp_pct, rev_sl_pct, breakeven_trigger_pct) and in percent (ATR ratio
\* thresholds, SL distance factors).
sl_pct == 80
rev_tp_pct == 30
rev_sl_pct == 80
breakeven_trigger_pct == 40
high_vol_atr_ratio == 150
low_vol_atr_ratio == 70
high_vol_sl_factor == 120
low_vol_sl_factor == 85
NormalAtr == 100       \* _compute_btc_atr_ratio's answer without candles: 1.0

\* Prices are integers: entry * (1 - pct) is rounded down and
\* entry * (1 + pct) is rounded up, so that a barrier never coincides with
\* the price it is derived from.
PctBelow(price, bp) == (price * (10000 - bp)) \div 10000
PctAbove(price, bp) == (price * (10000 + bp) + 9999) \div 10000

\* WaveRider.compute_sl / compute_rev_sl / compute_rev_tp.
compute_sl(entry_price, direction) ==
    IF direction = "long" THEN PctBelow(entry_price, sl_pct)
    ELSE PctAbove(entry_price, sl_pct)
compute_rev_sl(entry_price) == PctAbove(entry_price, rev_sl_pct)
compute_rev_tp(entry_price) == PctBelow(entry_price, rev_tp_pct)

\* dist * factor, factor in percent.
Scaled(dist, factor) == (dist * factor) \div 100

compute_adaptive_sl_unclamped(entry_price, current_price, current_sl, direction, atr_ratio) ==
    IF direction = "long"
    THEN LET breakeven == (current_price - entry_price) * 10000
                              >= breakeven_trigger_pct * entry_price
             candidate_sl == IF breakeven THEN Max(current_sl, entry_price)
                             ELSE current_sl
             dist == current_price - candidate_sl
             original_sl == PctBelow(entry_price, sl_pct)
         IN IF atr_ratio > high_vol_atr_ratio
            THEN Max(current_price - Scaled(dist, high_vol_sl_factor),
                     original_sl)
            ELSE IF atr_ratio < low_vol_atr_ratio
            THEN Max(current_price - Scaled(dist, low_vol_sl_factor),
                     candidate_sl)
            ELSE candidate_sl
    ELSE LET breakeven == (entry_price - current_price) * 10000
                              >= breakeven_trigger_pct * entry_price
             candidate_sl == IF breakeven THEN Min(current_sl, entry_price)
                             ELSE current_sl
             dist == candidate_sl - current_price
             original_sl == PctAbove(entry_price, sl_pct)
         IN IF atr_ratio > high_vol_atr_ratio
            THEN Min(current_price + Scaled(dist, high_vol_sl_factor),
                     original_sl)
            ELSE IF atr_ratio < low_vol_atr_ratio
            THEN Min(current_price + Scaled(dist, low_vol_sl_factor),
                     candidate_sl)
            ELSE candidate_sl

\* WaveRider.compute_adaptive_sl(entry_price, current_price, current_sl,
\* direction, atr_ratio): the new stop (the label is not modelled).
compute_adaptive_sl(entry_price, current_price, current_sl, direction, atr_ratio) ==
    IF direction = "long"
    THEN LET breakeven == (current_price - entry_price) * 10000
                              >= breakeven_trigger_pct * entry_price
             candidate_sl == IF breakeven THEN Max(current_sl, entry_price)
                             ELSE current_sl
             dist == current_price - candidate_sl
             original_sl == PctBelow(entry_price, sl_pct)
         IN IF atr_ratio > high_vol_atr_ratio
            THEN Max(Max(current_price - Scaled(dist, high_vol_sl_factor),
                         original_sl), current_sl)
            ELSE IF atr_ratio < low_vol_atr_ratio
            THEN Max(current_price - Scaled(dist, low_vol_sl_factor),
                     candidate_sl)
            ELSE candidate_sl
    ELSE LET breakeven == (entry_price - current_price) * 10000
                              >= breakeven_trigger_pct * entry_price
             candidate_sl == IF breakeven THEN Min(current_sl, entry_price)
                             ELSE current_sl
             dist == candidate_sl - current_price
             original_sl == PctAbove(entry_price, sl_pct)
         IN IF atr_ratio > high_vol_atr_ratio
            THEN Min(Min(current_price + Scaled(dist, high_vol_sl_factor),
                         original_sl), current_sl)
            ELSE IF atr_ratio < low_vol_atr_ratio
            THEN Min(current_price + Scaled(dist, low_vol_sl_factor),
                     candidate_sl)
            ELSE candidate_sl

WrHold(sym, meta) == HoldPosition(sym, meta.pattern)

\* The new-entry part shared by _run_wave_rider_btc (section 3) and
\* _run_wave_rider_hype (section 2): hour == 15 on an allowed weekday, the
\* 14:00 bar found, decide_entry on its open_move.
WrNewEntry(sym, t, midv, barFound, openMove, thursdayOnly) ==
    LET weekday == (StartWeekday + (t \div DayMinutes)) % 7
        hour == (t % DayMinutes) \div 60
        d == decide_entry(openMove)
        sl_price == compute_sl(midv, d[1])
    IN IF \/ weekday >= 5
          \/ thursdayOnly /\ weekday # Thursday
          \/ hour # 15
          \/ ~barFound
          \/ d[1] = ""
       THEN [sigs |-> <<>>, meta |-> NoWr]
       ELSE [sigs |-> <<Sig(sym, d[1], d[2], "", sl_price, 0)>>,
             meta |-> [phase |-> "wave_rider", pattern |-> d[2],
                       direction |-> d[1], entry |-> midv, sl |-> sl_price,
                       tp |-> 0]]

\* _run_wave_rider_btc(settings, context).  cfg: enabled, reversion_enabled.
\* devTrig: should_trigger_reversion(observe_open, mid) with observe_open > 0;
\* atr_ratio: _compute_btc_atr_ratio(sym_data), in percent.
_run_wave_rider_btc(cfg, t, meta, pending, midv, barFound, openMove, devTrig, atr_ratio) ==
    LET hour == (t % DayMinutes) \div 60
        same == [sigs |-> <<>>, meta |-> meta, pending |-> pending]
        closed == [sigs |-> <<CloseSig("BTC", meta.pattern)>>,
                   meta |-> NoWr, pending |-> pending]
        held == [sigs |-> <<WrHold("BTC", meta)>>,
                 meta |-> [meta EXCEPT !.sl =
                             compute_adaptive_sl(
                                 IF meta.entry > 0 THEN meta.entry ELSE midv,
                                 midv, meta.sl, meta.direction, atr_ratio)],
                 pending |-> pending]
    IN
    IF ~cfg.wr_enabled THEN same
    ELSE IF midv <= 0 THEN same
    ELSE IF meta.phase = "wave_rider" THEN
        IF \/ meta.direction = "long" /\ midv <= meta.sl
           \/ meta.direction = "short" /\ midv >= meta.sl
        THEN closed
        ELSE IF hour >= 20
        THEN [closed EXCEPT !.pending =
                 IF meta.pattern = "wr_up_large" /\ cfg.reversion_enabled
                    /\ devTrig
                 THEN t + 15 ELSE pending]
        ELSE held
    ELSE IF meta.phase = "reversion" THEN
        IF midv >= meta.sl THEN closed
        ELSE IF meta.tp > 0 /\ midv <= meta.tp THEN closed
        ELSE IF 8 <= hour /\ hour < 14 THEN closed
        ELSE held
    ELSE IF pending # NoPending THEN
        IF t >= pending
        THEN [sigs |-> <<Sig("BTC", "short", "wr_up_large_rev", "",
                             compute_rev_sl(midv), 0)>>,
              meta |-> [phase |-> "reversion", pattern |-> "wr_up_large_rev",
                        direction |-> "short", entry |-> midv,
                        sl |-> compute_rev_sl(midv),
                        tp |-> compute_rev_tp(midv)],
              pending |-> NoPending]
        ELSE [sigs |-> <<HoldPosition("BTC", "wr_up_large_rev")>>,
              meta |-> meta, pending |-> pending]
    ELSE LET e == WrNewEntry("BTC", t, midv, barFound, openMove, FALSE)
         IN [sigs |-> e.sigs,
             meta |-> IF e.sigs = <<>> THEN meta ELSE e.meta,
             pending |-> pending]

\* _run_wave_rider_hype(settings, context).  cfg: hype_enabled, thursday_only.
_run_wave_rider_hype(cfg, t, meta, midv, barFound, openMove) ==
    LET hour == (t % DayMinutes) \div 60
        same == [sigs |-> <<>>, meta |-> meta]
        closed == [sigs |-> <<CloseSig("HYPE", meta.pattern)>>, meta |-> NoWr]
    IN
    IF ~cfg.hype_enabled THEN same
    ELSE IF midv <= 0 THEN same
    ELSE IF meta.phase = "wave_rider" THEN
        IF meta.direction = "long" /\ midv <= meta.sl THEN closed
        ELSE IF meta.direction = "short" /\ midv >= meta.sl THEN closed
        ELSE IF hour >= 20 THEN closed
        ELSE [sigs |-> <<WrHold("HYPE", meta)>>, meta |-> meta]
    ELSE IF meta.phase # "" THEN same
    ELSE LET e == WrNewEntry("HYPE", t, midv, barFound, openMove,
                             cfg.thursday_only)
         IN [sigs |-> e.sigs,
             meta |-> IF e.sigs = <<>> THEN meta ELSE e.meta]

\* _track_agent_failure(failed): the counter after the call, and whether
\* _trigger_agent_failure_alert runs (at 3, then at every odd count).
TrackCount(count, failed) == IF failed THEN count + 1 ELSE 0
TrackAlerts(count, failed) ==
    /\ failed
    /\ count + 1 >= _AGENT_FAILURE_THRESHOLD
    /\ \/ count + 1 = _AGENT_FAILURE_THRESHOLD
       \/ (count + 1) % 2 = 1

\* ================================================================ executor
NoneSyms == [s \in Symbols |-> "none"]

\* The exchange's net position after a market_open on `side` (sizes are
\* not modelled: an order against an opposite position flattens it).
ApplyOpen(cur, side) == IF cur = "none" \/ cur = side THEN side ELSE "none"

\* A result record; reason is the list of reason texts the record carries
\* (joined by " | " in the code), empty when the record has no reason.
Result(sym, action, status, reason) ==
    [symbol |-> sym, action |-> action, status |-> status, reason |-> reason]

\* TradeExecutor._composite_entry_gate(signal, live_equity): every check is
\* run, in this order, and the reasons of the failing ones are collected.
\* failing: the checks that return (False, reason), each named by its reason.
GateChecks == <<"equity_drift", "consensus_quality", "daily_loss_budget",
                "data_quality", "mm_context", "entry_cooldown", "rr">>
GateCheckSet == {GateChecks[i] : i \in 1..Len(GateChecks)}

\* The checks that can fail for a strategy's signal: _check_rr passes every
\* time_cut signal, and _check_consensus_quality fails only on the reasoning
\* text of a partial consensus, which no strategy writes.
GateCanFail(signal) ==
    GateCheckSet \ ({"consensus_quality"} \cup
                    IF signal.exit_mode = "time_cut" THEN {"rr"} ELSE {})

_composite_entry_gate_first_failure(failing) ==
    LET reasons == SelectSeq(GateChecks, LAMBDA c : c \in failing)
    IN [allowed |-> reasons = <<>>,
        reason |-> IF reasons = <<>> THEN <<>> ELSE <<Head(reasons)>>]

_composite_entry_gate(failing) ==
    LET reasons == SelectSeq(GateChecks, LAMBDA c : c \in failing)
    IN [allowed |-> reasons = <<>>, reason |-> reasons]

raises_out_uncaught(verdict, out) == verdict = "risk_error" \/ out = "exception"

\* Whether execute_signal lets an exception out to execute_signals: the risk
\* validation and the execution are each wrapped in try / except Exception.
raises_out(verdict, out) == FALSE
Order(sym, op) == [symbol |-> sym, op |-> op]

\* TradeExecutor._save_rubber_meta(signal, result): only ETH / SOL signals
\* that carry a pattern.
_save_rubber_meta(metas, signal) ==
    IF signal.symbol \notin {"ETH", "SOL"} \/ signal.pattern = ""
    THEN metas
    ELSE [metas EXCEPT ![signal.symbol] =
            [direction |-> signal.action, pattern |-> signal.pattern,
             exit_mode |-> IF signal.exit_mode = "" THEN "tp_sl"
                           ELSE signal.exit_mode,
             exit_bars |-> IF signal.exit_mode = "time_cut" THEN ExitBars ELSE 0,
             bar_count |-> 0, sl |-> signal.sl, tp |-> signal.tp]]

\* TradeExecutor._clear_rubber_meta(symbol)
_clear_rubber_meta(metas, sym) == [metas EXCEPT ![sym] = NoMeta]

\* TradeExecutor.close_position(symbol) with HLClient.close_position:
\* out is what market_close does ("closed", "failed", "exception"); with no
\* position on the exchange market_close returns None ("no_position").
\* pnl is the realized P&L of the fill, eq the equity read afterwards.
close_position(sym, ex, pos, d, today, out, pnl, eq) ==
    LET status == IF out = "exception" THEN "error"
                  ELSE IF ex[sym] = "none" THEN "no_position"
                  ELSE out
        booked == status = "closed" /\ pos[sym] # "none"
    IN [status |-> status,
        ex |-> IF status = "closed" THEN [ex EXCEPT ![sym] = "none"] ELSE ex,
        daily |-> IF booked THEN update_daily_pnl(d, today, eq, pnl, NoApi)
                  ELSE d]

\* StateManager.sync_positions(client): positions.json is overwritten with
\* the exchange's answer (an empty list when the query fails inside
\* HLClient.get_positions), the daily unrealized is reconciled, and the
\* meta files of symbols without a position are removed.
SyncPositions(ex, ok) == IF ok THEN ex ELSE NoneSyms
SweepRubber(metas, pos) ==
    [s \in RubberSyms |-> IF pos[s] = "none" THEN NoMeta ELSE metas[s]]
SweepWr(metas, pos) ==
    [s \in WrSyms |-> IF pos[s] = "none" THEN NoWr ELSE metas[s]]
SweepPending(pending, pos) ==
    IF pos["BTC"] = "none" THEN NoPending ELSE pending

\* RiskManager.check_daily_loss(daily_pnl, equity)
check_daily_loss(d, equity) ==
    LET total_pnl == d.realized + d.unrealized
    IN equity > 0 /\ total_pnl < 0
       /\ Abs(total_pnl) * 100 >= DailyLossPct * equity

\* RiskManager.check_max_drawdown(current_equity, peak_equity)
check_max_drawdown(current_equity, peak_equity) ==
    peak_equity > 0
    /\ (peak_equity - current_equity) * 100 >= MaxDrawdownPct * peak_equity

\* ============================================================ configuration
\* settings.yaml / environment read by the handlers.
FullCfg == [wr_enabled |-> TRUE, reversion_enabled |-> TRUE,
            hype_enabled |-> TRUE, thursday_only |-> TRUE,
            close_only |-> FALSE]
ConfigSymbols == <<"BTC", "ETH">>           \* trading.symbols default in main()
RubberFallbackSymbols == <<"BTC", "ETH", "SOL">>
MaxFailCount == 3      \* cap on consecutive_failures

\* The arbiter cycles elapsed since a time_cut entry opened the position on
\* the exchange (one cycle of the loop is one 5-minute bar); NotHeld when
\* the symbol has no such position.
NotHeld == -1
HeldAfterCycle(h) == IF h = NotHeld THEN NotHeld ELSE Min(h + 1, ExitBars)
HeldAfterOrder(h, before, after, signal, took) ==
    IF after = "none" THEN NotHeld
    ELSE IF took /\ before = "none" /\ signal.exit_mode = "time_cut" THEN 0
    ELSE h

\* context["market_data"]["BTC"] as a Wave Rider run reads it: the mid price
\* and the ATR ratio of the 5m candles.
NoRun == [mid |-> 0, atr |-> 0]

\* No run of _composite_entry_gate yet in this batch step.
NoGate == [ran |-> FALSE, failing |-> {}]

\* ======================================================= trade history file
\* StateManager.record_trade(trade) as run by several processes at once
\* (the executor's cycle and the supervisor's emergency close both record
\* trades).  history is trade_history.json; each process holds the list it
\* read and the trade it is appending.  The flock of atomic_write_json is
\* taken on the process's own temp file, so it excludes nobody.
MAX_TRADE_HISTORY == 500
Procs == {1, 2}
MaxTrades == 3       \* trades recorded by each process

NoJournal == [history |-> <<>>,
              at |-> [p \in Procs |-> "idle"],
              read |-> [p \in Procs |-> <<>>],
              trade |-> [p \in Procs |-> <<0, 0>>],
              recorded |-> {}]

\* history[-MAX_TRADE_HISTORY:]
LastEntries(h, n) ==
    IF Len(h) <= n THEN h ELSE SubSeq(h, Len(h) - n + 1, Len(h))


\* ==================================================== file writes and readers
\* A file is written either by atomic_write_json (temp file in the same
\* directory, then rename over the target) or by Path.write_text (the
\* target is opened with truncation and written in place).  The content of
\* a file is the list of the blocks written so far; a complete content of
\* version v is FileBlocks blocks of v.
Files == {"rubber_meta", "signals", "daily_pnl"}
\* Files that also have a Path.write_text writer: the rubber meta
\* (_save_rubber_meta) and signals.json (enter_safe_hold).
WriteTextFiles == {"rubber_meta", "signals"}
FileBlocks == 2
MaxVersion == 2      \* versions written to each file

NoFile == [exists |-> FALSE, data |-> <<>>]
Content(v) == [exists |-> TRUE, data |-> [i \in 1..FileBlocks |-> v]]

NoDisk == [file |-> [f \in Files |-> NoFile],
           version |-> [f \in Files |-> 0],
           writing |-> [f \in Files |-> FALSE],
           seen |-> NoFile,
           seenOf |-> "signals"]

\* ---- utils/retry.py: call_with_retry.  The callers leave `exceptions` at
\* its default (Exception,), so every exception of the wrapped operation is
\* caught by the loop.
MaxRetries == 3
Errors == {"timeout", "rejected"}
backoff_factor == 2
\* (base_delay, max_delay) in seconds: the brain's, the collector's and the
\* defaults of call_with_retry.
RetryDelays == {<<3, 15>>, <<2, 10>>, <<2, 30>>}
NoRetry == [at |-> "idle", max_retries |-> 0, delay |-> 0, max_delay |-> 0,
            calls |-> <<>>, slept |-> <<>>, last_error |-> ""]
\* _execute_with_retry: remaining = max_retries - attempt
remaining_one_less(max_retries, attempt) == max_retries - attempt - 1
remaining(max_retries, attempt) == max_retries - attempt

\* ---- StateManager.sync_positions run on its own: the exchange's positions
\* and their unrealized P&L, the state files it reads and writes, the number
\* of runs made and the positions and meta files as the first run left them.
SyncOutcomes == {"ok", "query_failed", "save_failed"}
SyncExchanges == {[s \in Symbols |-> "none"],
                  [s \in Symbols |-> IF s = "ETH" THEN "long" ELSE "none"],
                  [s \in Symbols |-> IF s = "BTC" THEN "short"
                                     ELSE IF s = "ETH" THEN "long" ELSE "none"]}
HeldMeta == [NoMeta EXCEPT !.direction = "long", !.exit_mode = "time_cut"]
HeldWr == [NoWr EXCEPT !.phase = "wave_rider", !.direction = "short"]
SyncFiles(r) == [positions |-> r.positions, rubberMeta |-> r.rubberMeta,
                 wrMeta |-> r.wrMeta]
NoSync == [ex |-> [s \in Symbols |-> "none"], upnl |-> 0,
           positions |-> [s \in Symbols |-> "none"],
           rubberMeta |-> [s \in RubberSyms |-> NoMeta],
           wrMeta |-> [s \in WrSyms |-> NoWr],
           revPending |-> NoPending, daily |-> NoDaily, runs |-> 0,
           first |-> [positions |-> [s \in Symbols |-> "none"],
                      rubberMeta |-> [s \in RubberSyms |-> NoMeta],
                      wrMeta |-> [s \in WrSyms |-> NoWr]]]
\* What two runs in succession can start from: a flat exchange has no
\* unrealized P&L.
SyncStartsAll ==
    {[NoSync EXCEPT
         !.ex = e, !.upnl = u, !.positions = p,
         !.rubberMeta = [s \in RubberSyms |-> IF s \in m THEN HeldMeta ELSE NoMeta],
         !.wrMeta = [s \in WrSyms |-> IF s = "BTC" /\ w THEN HeldWr ELSE NoWr],
         !.revPending = IF w THEN 0 ELSE NoPending,
         !.first = [positions |-> p,
                    rubberMeta |-> [s \in RubberSyms |->
                                       IF s \in m THEN HeldMeta ELSE NoMeta],
                    wrMeta |-> [s \in WrSyms |->
                                   IF s = "BTC" /\ w THEN HeldWr ELSE NoWr]]] :
       e \in SyncExchanges, p \in SyncExchanges, m \in SUBSET {"BTC", "ETH"},
       w \in BOOLEAN, u \in {-6, 0}}
SyncStarts ==
    {r \in SyncStartsAll : (\A s \in Symbols : r.ex[s] = "none") => r.upnl = 0}

\* ---- the strategies' _build_next_cache.  Volumes are whole multiples of
\* 0.0001, the unit round(threshold_vol, 4) rounds to; candle i (numbered from
\* 0) opens at minute 5 * i.
MaxCandles == 6
MaxWindow == 7
Volumes == {0, 1, 4}
BarMinutes == 5
CacheThresholds == [BTC |-> 5, ETH |-> 3, SOL |-> 5]
NoCache == [built |-> FALSE, candles |-> <<>>, n_total |-> 0, sum_known |-> 0,
            threshold |-> 0, next_target_t |-> 0,
            threshold_vol |-> [inf |-> FALSE, val |-> 0]]
RECURSIVE SumVol(_, _, _)
SumVol(candles, start, end) ==
    IF start >= end THEN 0
    ELSE candles[start + 1] + SumVol(candles, start + 1, end)
\* round(num / den, 0) as Python rounds: to the nearest, a tie to the even.
RoundHalfEven(num, den) ==
    LET q == num \div den
        r == num % den
    IN IF 2 * r < den THEN q
       ELSE IF 2 * r > den THEN q + 1
       ELSE IF q % 2 = 0 THEN q ELSE q + 1
\* _build_next_cache(current_idx) with cfg vol_window and threshold
_build_next_cache(candles, current_idx, vol_window, threshold) ==
    LET next_idx == current_idx + 1
        start == IF next_idx - vol_window + 1 > 0
                 THEN next_idx - vol_window + 1 ELSE 0
        end == IF current_idx + 1 < Len(candles)
               THEN current_idx + 1 ELSE Len(candles)
        sum_known == SumVol(candles, start, end)
        n_known == end - start
        n_total == n_known + 1
        denominator == n_total - threshold
    IN [built |-> TRUE, candles |-> candles, n_total |-> n_total,
        sum_known |-> sum_known, threshold |-> threshold,
        next_target_t |-> BarMinutes * next_idx,
        threshold_vol |->
            IF denominator <= 0 THEN [inf |-> TRUE, val |-> 0]
            ELSE [inf |-> FALSE,
                  val |-> RoundHalfEven(threshold * sum_known, denominator)]]

\* ---- HLClient.place_market_order.  What the exchange answers is abstracted
\* to the cases the code tells apart.
\* update_leverage: {"status": "ok"}, {"status": "err", ...}, an answer that
\* is no dict, an exception.
LevResponses == {"ok", "err", "no_dict", "raised"}
\* market_open: a fill with its price, a fill without a usable price, a
\* resting order, an error among the statuses, an exception.
OpenResponses == {"filled", "filled_no_price", "resting", "error", "raised"}
Leverages == {1, 3, 5}
NoOrder == [done |-> FALSE, coin |-> "", side |-> "", leverage |-> 0,
            lev |-> "", calls |-> <<>>, status |-> "", success |-> FALSE]
_is_order_success(resp) == resp \in {"filled", "filled_no_price"}
_is_order_partial(resp) == resp = "resting"
HasFillPrice(resp) == resp = "filled"      \* _extract_fill_price(resp) > 0
\* place_market_order: the two ways the leverage update is taken as failed
leverage_failed_exception_only(lev_resp) == lev_resp = "raised"
leverage_failed(lev_resp) == lev_resp \in {"err", "raised"}

\* ---- brain/signal_merger.py: merge_signals for one symbol.  Times are in
\* minutes, confidences in hundredths.
_MIN_HOLD_CYCLES == 2
_CYCLE_MINUTES == 5
_MIN_HOLD_MINUTES == _MIN_HOLD_CYCLES * _CYCLE_MINUTES
_R_CRITICAL_CLOSE_CONF == 90
min_confidence == 70
NoTime == -100
NoDecision == [present |-> FALSE, verdict |-> "reject", final_action |-> "hold",
               confidence |-> 0]
Decision(verdict, final_action, confidence) ==
    [present |-> TRUE, verdict |-> verdict, final_action |-> final_action,
     confidence |-> confidence]
\* What the risk agent may have said about the symbol.
RiskDecisions == {NoDecision,
                  Decision("approve", "hold", 85), Decision("modify", "hold", 85),
                  Decision("reject", "hold", 85), Decision("approve", "close", 85),
                  Decision("approve", "close", 90), Decision("reject", "close", 90)}
AgentActions == {"hold", "long", "short", "close"}
MergeNow == 20
PositionOpenedAts == {NoTime, 16}
HistoryOpenedAts == {NoTime, 8, 10, 13}
NoMerge == [done |-> FALSE, symbol |-> "", t_action |-> "", f_action |-> "",
            r |-> NoDecision, pos_opened |-> NoTime, hist_opened |-> NoTime,
            at |-> 0,
            out |-> [action |-> "", confidence |-> 0, rule |-> ""],
            action_type |-> ""]
\* _get_position_opened_at: positions.json's opened_at, else the latest open
\* entry of the trade history, else None.
_get_position_opened_at(pos_opened, hist_opened) ==
    IF pos_opened # NoTime THEN pos_opened ELSE hist_opened
_is_within_min_hold_period(opened_at, t) ==
    opened_at # NoTime /\ t - opened_at < _MIN_HOLD_MINUTES
\* merge_signals: r_is_critical_close
r_is_critical_close_any_confidence(r_action, r_conf) == r_action = "close"
r_is_critical_close(r_action, r_conf) ==
    r_action = "close" /\ r_conf >= _R_CRITICAL_CLOSE_CONF
\* merge_signals, the body of `for symbol in symbols`: the merged signal's
\* action and confidence and the rule that produced it.
MergeSymbol(t_action, f_action, conf, r, pos_opened, hist_opened, t, bearish) ==
    LET r_verdict == r.verdict
        r_action == r.final_action
        any_close == t_action = "close" \/ f_action = "close" \/ r_action = "close"
        opened_at == _get_position_opened_at(pos_opened, hist_opened)
        t_trade == IF t_action \in {"long", "short"} THEN t_action ELSE "hold"
        f_trade == IF f_action \in {"long", "short"} THEN f_action ELSE "hold"
        Hold(rule) == [action |-> "hold", confidence |-> 0, rule |-> rule]
    IN IF any_close
       THEN IF /\ _is_within_min_hold_period(opened_at, t)
               /\ ~r_is_critical_close(r_action, r.confidence)
            THEN Hold("min_hold")
            ELSE [action |-> "close", confidence |-> 90, rule |-> "out"]
       ELSE IF r_verdict = "reject" THEN Hold("r_reject")
       ELSE IF t_trade \in {"long", "short"} /\ t_trade = f_trade
       THEN [action |-> t_trade, confidence |-> conf, rule |-> "full_in"]
       ELSE IF \/ t_trade \in {"long", "short"} /\ f_trade = "hold"
               \/ f_trade \in {"long", "short"} /\ t_trade = "hold"
       THEN IF t_trade = "hold" /\ f_trade = "long" /\ bearish
            THEN Hold("4h_filter")
            ELSE [action |-> IF t_trade # "hold" THEN t_trade ELSE f_trade,
                  confidence |-> conf, rule |-> "partial_in"]
       ELSE IF t_trade # "hold" /\ f_trade # "hold" THEN Hold("conflict")
       ELSE Hold("both_hold")

\* ---- hypothesis/archiver.py: the snapshots under data/history/<day>/ of one
\* day, named by the second (HHMMSS) of their writing.  A snapshot is the
\* number of the collector run that produced it; 0 is "no file".
MaxSecond == 3
MaxSnapshots == 3
NoArchive == [clock |-> 0, files |-> [s \in 0..MaxSecond |-> 0],
              archived |-> <<>>, loaded |-> <<>>, loadedDone |-> FALSE]
\* load_history: the day's files in the order of their names.
RECURSIVE SortedSnapshots(_, _)
SortedSnapshots(files, s) ==
    IF s > MaxSecond THEN <<>>
    ELSE (IF files[s] # 0 THEN <<files[s]>> ELSE <<>>)
         \o SortedSnapshots(files, s + 1)

\* ---- call_with_retry(_run_rubber_wall, max_retries=2) in main(): what the
\* failed attempts of the running cycle left behind.
StrategyMaxRetries == 2
NoTry == [at |-> NoTime, failed |-> 0, closed |-> {},
          bars |-> [s \in RubberSyms |-> NotHeld]]

\* ---- kill_switch.json shared by the monitor (activate), the operator
\* (deactivate) and the two warning writers, each a process of its own.
WarningWriters == {"safe_hold", "agent_failure_alert"}
NoFlag == [file |-> deactivate(KsAbsent),
           at |-> [w \in WarningWriters |-> "idle"],
           read |-> [w \in WarningWriters |-> KsAbsent],
           activated |-> FALSE]

\* ---- BtcRubberWall.scan's spike decision on the latest confirmed bar, taken
\* with the cache the previous scan built and without it.
\* _atr_volatility_multiplier(idx), in percent, from the short and the long
\* average of high - low (scan runs only with idx >= h4_window, so both
\* windows have their bars).
_atr_volatility_multiplier(short_atr, long_atr) ==
    IF long_atr <= 0 \/ short_atr <= 0 THEN 100
    ELSE IF short_atr * 10 > 15 * long_atr THEN 120
    ELSE IF short_atr * 10 < 7 * long_atr THEN 85
    ELSE 100
\* _vol_ratio_single(idx) >= vol_threshold, the bar's volume v over the
\* average of its window of n bars (sum_known is the other bars' volume);
\* the ratio is 0.0 over an empty window.
RatioReaches(v, sum_known, n, threshold_pct) ==
    /\ sum_known + v > 0
    /\ v * n * 100 >= threshold_pct * (sum_known + v)
\* scan(cache), down to "spike or not": the fast path compares the volume
\* with the cached threshold_vol and re-checks the ratio against the
\* adjusted threshold; the slow path compares the ratio alone.
ScanDecision(hit, c, v, is_bear, threshold_pct) ==
    IF hit
    THEN IF (c.threshold_vol.inf \/ v < c.threshold_vol.val) \/ ~is_bear
         THEN "none"
         ELSE IF ~RatioReaches(v, c.sum_known, c.n_total, threshold_pct)
         THEN "none" ELSE "spike"
    ELSE IF ~RatioReaches(v, c.sum_known, c.n_total, threshold_pct) \/ ~is_bear
         THEN "none" ELSE "spike"
AtrPairs == {<<10, 10>>, <<16, 10>>, <<6, 10>>, <<0, 10>>}
NoScan == [candles |-> <<1>>, ran |-> FALSE, regime |-> 100, fast |-> "none",
           slow |-> "none"]

\* ============================================================= components
\* The components exercised on their own are at rest unless named.
LibIdle(active) ==
    /\ IF "journal" \in active THEN TRUE ELSE journal = NoJournal
    /\ IF "disk" \in active THEN TRUE ELSE disk = NoDisk
    /\ IF "retry" \in active THEN TRUE ELSE retry = NoRetry
    /\ IF "syncRun" \in active THEN TRUE ELSE syncRun = NoSync
    /\ IF "cache" \in active THEN TRUE ELSE cache = NoCache
    /\ IF "order" \in active THEN TRUE ELSE order = NoOrder
    /\ IF "arbiter" \in active THEN TRUE ELSE arbiter = NoMerge
    /\ IF "archive" \in active THEN TRUE ELSE archive = NoArchive
    /\ IF "strategyTry" \in active THEN TRUE ELSE strategyTry = NoTry
    /\ IF "flag" \in active THEN TRUE ELSE flag = NoFlag
    /\ IF "scan" \in active THEN TRUE ELSE scan = NoScan

\* ==================================================================== Init
CycleInit(switches) ==
    /\ pc = "collect"
    /\ now = 540
    /\ ks \in switches
    /\ exPos = NoneSyms
    /\ positions = NoneSyms
    /\ rubberMeta = [s \in RubberSyms |-> NoMeta]
    /\ wrMeta = [s \in WrSyms |-> NoWr]
    /\ revPending = NoPending
    /\ sigFile = NoSigFile
    /\ daily = NoDaily
    /\ failCount = 0
    /\ sigList = <<>>
    /\ scanFailed = 0
    /\ execIdx = 1
    /\ results = <<>>
    /\ closeQueue = <<>>
    /\ orders = {}
    /\ lastOp = "init"
    /\ flipped = FALSE
    /\ heldBars = [s \in RubberSyms |-> NotHeld]
    /\ wrRun = NoRun
    /\ gateRun = NoGate

InitWith(switches) == CycleInit(switches) /\ LibIdle({})

\* A fresh deployment: kill_switch.json may not have been created yet.
Init == InitWith({KsAbsent, deactivate(KsAbsent)})

\* A deployment whose kill_switch.json exists and is disabled.
InitDeployed == InitWith({deactivate(KsAbsent)})

\* ================================================================ collector
NextInstants(timeline, t) ==
    LET later == {u \in timeline : u > t}
    IN {t} \cup {u \in later : \A v \in later : u <= v}

\* data_collector.collect(): the clock has moved on; sync_positions is
\* called with two arguments and fails, so positions stays [] and the
\* daily P&L is updated from equity alone when equity > 0.
Collect(t, equity) ==
    /\ pc = "collect"
    /\ t >= now
    /\ now' = t
    /\ daily' = IF equity > 0
                THEN update_daily_pnl(daily, t \div DayMinutes, equity, 0, NoApi)
                ELSE daily
    /\ pc' = "brain_ctx"
    /\ lastOp' = "collect"
    /\ UNCHANGED <<ks, exPos, positions, rubberMeta, wrMeta, revPending,
                   sigFile, failCount, sigList, scanFailed, execIdx, results,
                   closeQueue, orders, flipped, heldBars, wrRun, gateRun>>
    /\ UNCHANGED libVars

\* kill_switch.deactivate(), called by the operator between cycles.
Deactivate ==
    /\ pc = "collect"
    /\ ks # deactivate(ks)
    /\ ks' = deactivate(ks)
    /\ flipped' = FALSE
    /\ lastOp' = "deactivate"
    /\ UNCHANGED <<pc, now, exPos, positions, rubberMeta, wrMeta, revPending,
                   sigFile, daily, failCount, sigList, scanFailed, execIdx,
                   results, closeQueue, orders, heldBars, wrRun, gateRun>>
    /\ UNCHANGED libVars

\* ==================================================================== brain
\* brain_consensus.main(), step 1 succeeded: the context is built.
BrainContextOk ==
    /\ pc = "brain_ctx"
    /\ sigList' = <<>>
    /\ scanFailed' = 0
    /\ pc' = "brain_btc"
    /\ lastOp' = "brain"
    /\ UNCHANGED <<now, ks, exPos, positions, rubberMeta, wrMeta, revPending,
                   sigFile, daily, failCount, execIdx, results, closeQueue,
                   orders, flipped, heldBars, wrRun, gateRun>>
    /\ UNCHANGED libVars

\* main(), RetryExhausted while building the context: fallback batch,
\* _track_agent_failure(True), enter_safe_hold.
BrainContextExhausted ==
    /\ pc = "brain_ctx"
    /\ failCount < MaxFailCount
    /\ failCount' = TrackCount(failCount, TRUE)
    /\ sigFile' = SafeHoldPayload
    /\ ks' = enter_safe_hold_ks(IF TrackAlerts(failCount, TRUE)
                                THEN _trigger_agent_failure_alert(ks) ELSE ks)
    /\ pc' = "exec_begin"
    /\ lastOp' = "safe_hold"
    /\ UNCHANGED <<now, exPos, positions, rubberMeta, wrMeta, revPending,
                   daily, sigList, scanFailed, execIdx, results, closeQueue,
                   orders, flipped, heldBars, wrRun, gateRun>>
    /\ UNCHANGED libVars

\* main(), any other exception while building the context: fallback batch
\* and _track_agent_failure(True), no safe-hold.
BrainContextFailed ==
    /\ pc = "brain_ctx"
    /\ failCount < MaxFailCount
    /\ failCount' = TrackCount(failCount, TRUE)
    /\ sigFile' = _fallback_output(ConfigSymbols)
    /\ ks' = IF TrackAlerts(failCount, TRUE)
             THEN _trigger_agent_failure_alert(ks) ELSE ks
    /\ pc' = "exec_begin"
    /\ lastOp' = IF TrackAlerts(failCount, TRUE) THEN "agent_failure_alert"
                 ELSE "brain"
    /\ UNCHANGED <<now, exPos, positions, rubberMeta, wrMeta, revPending,
                   daily, sigList, scanFailed, execIdx, results, closeQueue,
                   orders, flipped, heldBars, wrRun, gateRun>>
    /\ UNCHANGED libVars

\* _run_rubber_wall, one rubber strategy's section (BTC, then ETH, SOL).
BrainRubber(sym, here, next, midv, candles, choice) ==
    /\ pc = here
    /\ choice \in ScanChoices(sym)
    /\ ~candles => choice = "none"
    /\ rubberMeta[sym].direction = "" => midv = MidPx
    /\ (sym = "BTC" /\ ~candles) => failCount < MaxFailCount
    /\ LET r == RubberSection(sym, rubberMeta, positions, sigList, scanFailed,
                              midv, candles, choice)
       IN /\ rubberMeta' = r.metas
          /\ sigList' = r.list
          /\ scanFailed' = r.failed
    /\ heldBars' = [heldBars EXCEPT ![sym] = HeldAfterCycle(@)]
    /\ pc' = next
    /\ lastOp' = "brain"
    /\ UNCHANGED <<now, ks, exPos, positions, wrMeta, revPending, sigFile,
                   daily, failCount, execIdx, results, closeQueue, orders,
                   flipped, wrRun, gateRun>>
    /\ UNCHANGED libVars

BrainBtc(midv, candles, choice) ==
    BrainRubber("BTC", "brain_btc", "brain_wr_btc", midv, candles, choice)
BrainEth(midv, candles, choice) ==
    BrainRubber("ETH", "brain_eth", "brain_sol", midv, candles, choice)
BrainSol(midv, candles, choice) ==
    BrainRubber("SOL", "brain_sol", "brain_merge", midv, candles, choice)

\* _run_rubber_wall: the BTC Wave Rider section.
BrainWrBtc(cfg, midv, barFound, openMove, devTrig, atr_ratio) ==
    /\ pc = "brain_wr_btc"
    /\ wrMeta["BTC"].phase = "" => midv \in {NoPx, MidPx}
    /\ ~barFound => openMove = 0
    /\ LET r == _run_wave_rider_btc(cfg, now, wrMeta["BTC"], revPending, midv,
                                    barFound, openMove, devTrig, atr_ratio)
       IN /\ wrMeta' = [wrMeta EXCEPT !["BTC"] = r.meta]
          /\ revPending' = r.pending
          /\ sigList' = sigList \o r.sigs
    /\ pc' = "brain_wr_hype"
    /\ lastOp' = "brain"
    /\ UNCHANGED <<now, ks, exPos, positions, rubberMeta, sigFile, daily,
                   failCount, scanFailed, execIdx, results, closeQueue,
                   orders, flipped, heldBars, wrRun, gateRun>>
    /\ UNCHANGED libVars

\* _run_rubber_wall: the HYPE Wave Rider section.
BrainWrHype(cfg, midv, barFound, openMove) ==
    /\ pc = "brain_wr_hype"
    /\ wrMeta["HYPE"].phase = "" => midv \in {NoPx, MidPx}
    /\ ~barFound => openMove = 0
    /\ LET r == _run_wave_rider_hype(cfg, now, wrMeta["HYPE"], midv, barFound,
                                     openMove)
       IN /\ wrMeta' = [wrMeta EXCEPT !["HYPE"] = r.meta]
          /\ sigList' = sigList \o r.sigs
    /\ pc' = "brain_eth"
    /\ lastOp' = "brain"
    /\ UNCHANGED <<now, ks, exPos, positions, rubberMeta, revPending, sigFile,
                   daily, failCount, scanFailed, execIdx, results, closeQueue,
                   orders, flipped, heldBars, wrRun, gateRun>>
    /\ UNCHANGED libVars

\* _run_rubber_wall: the merged batch is written to signals.json; main()
\* then calls _track_agent_failure(all_scan_failed).
BrainMerge ==
    /\ pc = "brain_merge"
    /\ sigFile' = IF sigList # <<>> THEN _signals_to_merged(sigList)
                  ELSE _fallback_output(RubberFallbackSymbols)
    /\ LET all_scan_failed == scanFailed >= 3
       IN /\ failCount' = TrackCount(failCount, all_scan_failed)
          /\ ks' = IF TrackAlerts(failCount, all_scan_failed)
                   THEN _trigger_agent_failure_alert(ks) ELSE ks
          /\ lastOp' = IF TrackAlerts(failCount, all_scan_failed)
                       THEN "agent_failure_alert" ELSE "brain"
    /\ sigList' = <<>>
    /\ scanFailed' = 0
    /\ pc' = "exec_begin"
    /\ UNCHANGED <<now, exPos, positions, rubberMeta, wrMeta, revPending,
                   daily, execIdx, results, closeQueue, orders, flipped,
                   heldBars, wrRun, gateRun>>
    /\ UNCHANGED libVars

\* main(), RetryExhausted from _run_rubber_wall: the last attempt raised after
\* its three sections had run (merging or writing the batch).  Fallback batch,
\* _track_agent_failure(True), enter_safe_hold; what the sections saved stays.
BrainRubberExhausted ==
    /\ pc = "brain_merge"
    /\ failCount < MaxFailCount
    /\ failCount' = TrackCount(failCount, TRUE)
    /\ sigFile' = SafeHoldPayload
    /\ ks' = enter_safe_hold_ks(IF TrackAlerts(failCount, TRUE)
                                THEN _trigger_agent_failure_alert(ks) ELSE ks)
    /\ sigList' = <<>>
    /\ scanFailed' = 0
    /\ pc' = "exec_begin"
    /\ lastOp' = "safe_hold"
    /\ UNCHANGED <<now, exPos, positions, rubberMeta, wrMeta, revPending,
                   daily, execIdx, results, closeQueue, orders, flipped,
                   heldBars, wrRun, gateRun>>
    /\ UNCHANGED libVars

\* _run_wave_rider_btc(settings, context) run on its own at clock t, prices
\* in units of 0.01% of a round entry price: the returned signals, the meta
\* file and the pending file.
WaveRiderRun(cfg, t, midv, barFound, openMove, devTrig, atr_ratio) ==
    /\ pc = "collect"
    /\ t >= now
    /\ ~barFound => openMove = 0
    /\ LET r == _run_wave_rider_btc(cfg, t, wrMeta["BTC"], revPending, midv,
                                    barFound, openMove, devTrig, atr_ratio)
       IN /\ wrMeta' = [wrMeta EXCEPT !["BTC"] = r.meta]
          /\ revPending' = r.pending
          /\ sigList' = r.sigs
    /\ wrRun' = [mid |-> midv, atr |-> atr_ratio]
    /\ now' = t
    /\ lastOp' = "wave_rider"
    /\ UNCHANGED <<pc, ks, exPos, positions, rubberMeta, sigFile, daily,
                   failCount, scanFailed, execIdx, results, closeQueue,
                   orders, flipped, heldBars,
                   gateRun>>
    /\ UNCHANGED libVars

\* ================================================================= executor
\* TradeExecutor.execute_signals(), up to the signal loop: the kill-switch
\* check through StateManager.get_kill_switch_status, then the signals file.
ExecBegin ==
    /\ pc = "exec_begin"
    /\ results' = <<>>
    /\ execIdx' = 1
    /\ orders' = {}
    /\ gateRun' = NoGate
    /\ IF get_kill_switch_status(ks) \/ ~sigFile.exists
       THEN pc' = "monitor" /\ lastOp' = "exec_done"
       ELSE pc' = "exec_signal" /\ lastOp' = "exec"
    /\ UNCHANGED <<now, ks, exPos, positions, rubberMeta, wrMeta, revPending,
                   sigFile, daily, failCount, sigList, scanFailed, closeQueue,
                   flipped, heldBars, wrRun>>
    /\ UNCHANGED libVars

\* RiskManager.validate_signal: len(positions) >= max_concurrent, over the
\* positions execute_signal read from positions.json.
max_concurrent == 3
OpenCount(pos) == Cardinality({s \in Symbols : pos[s] # "none"})
MaxConcurrentReached(pos) == OpenCount(pos) >= max_concurrent

\* TradeExecutor.execute_signal(signal) for the next signal of the batch.
\*   verdict: "skip" (confidence below min_confidence), "risk_error"
\*            (RiskManager raised), "reject" (validate_signal or the size
\*            calculation refused), "pass";
\*   gate:    the checks of the composite entry gate that fail;
\*   out:     what the exchange call did;
\*   opened:  whether a resting ("partial") order opened a position;
\*   pnl, eq: realized P&L of a close fill and the equity read after it.
ExecSignal(cfg, verdict, gate, out, opened, pnl, eq) ==
    /\ pc = "exec_signal"
    /\ execIdx <= Len(sigFile.signals)
    /\ LET sg == sigFile.signals[execIdx]
           sym == sg.symbol
           skipped == \/ cfg.close_only /\ sg.action # "close"
                      \/ sg.action \in {"hold", "hold_position"}
                      \/ sg.action # "close" /\ verdict = "skip"
           riskRejected == ~skipped /\ \/ verdict = "risk_error"
                                       \/ sg.action # "close" /\ verdict = "reject"
           gated == ~skipped /\ ~riskRejected /\ sg.action \in {"long", "short"}
           g == _composite_entry_gate(gate)
           rejected == riskRejected \/ (gated /\ ~g.allowed)
           closing == ~skipped /\ ~rejected /\ sg.action = "close"
           opening == ~skipped /\ ~rejected /\ sg.action \in {"long", "short"}
           c == close_position(sym, exPos, positions, daily, Today, out, pnl, eq)
           openStatus == IF out = "lev_error" \/ out = "exception" THEN "error"
                         ELSE out
           took == \/ out = "filled"
                   \/ out = "partial" /\ opened
           newEx == IF closing THEN c.ex
                    ELSE IF opening /\ took
                    THEN [exPos EXCEPT ![sym] = ApplyOpen(exPos[sym], sg.action)]
                    ELSE exPos
       IN /\ (skipped /\ verdict # "skip") => verdict = "pass"
          /\ skipped => out = "failed" /\ ~opened
          /\ ~gated => gate = {}
          /\ gate \subseteq GateCanFail(sg)
          /\ (skipped \/ rejected \/ opening) => pnl = 0 /\ eq = 0
          /\ rejected => out = "failed" /\ ~opened
          /\ sg.action = "close" => verdict \in {"pass", "risk_error"}
          /\ (~skipped /\ sg.action \in {"long", "short"}
              /\ MaxConcurrentReached(positions)) => verdict # "pass"
          /\ closing => /\ out \in {"closed", "failed", "exception"}
                        /\ ~opened
                        /\ (out # "closed" \/ exPos[sym] = "none"
                            \/ positions[sym] = "none") => pnl = 0 /\ eq = 0
                        /\ Abs(daily.realized + pnl) <= MaxAbsRealized
          /\ opening => /\ out \in {"lev_error", "filled", "partial", "failed",
                                    "exception"}
                        /\ opened => out = "partial"
          /\ IF raises_out(verdict, out)
             THEN /\ pc' = "monitor"
                  /\ lastOp' = "exec_raised"
                  /\ UNCHANGED <<results, orders, exPos, heldBars, daily,
                                 rubberMeta, execIdx, gateRun>>
             ELSE
                 /\ results' =
                      IF skipped THEN results
                      ELSE IF riskRejected
                      THEN Append(results, Result(sym, sg.action, "rejected",
                              <<IF verdict = "risk_error" THEN "risk_check_error"
                                ELSE "risk">>))
                      ELSE IF rejected
                      THEN Append(results, Result(sym, sg.action, "rejected", g.reason))
                      ELSE IF closing
                      THEN Append(results, Result(sym, "close", c.status, <<>>))
                      ELSE Append(results, Result(sym, sg.action, openStatus, <<>>))
                 /\ orders' =
                      IF closing THEN orders \cup {Order(sym, "close")}
                      ELSE IF opening /\ out # "lev_error"
                      THEN orders \cup {Order(sym, "open")}
                      ELSE orders
                 /\ exPos' = newEx
                 /\ heldBars' =
                      IF sym \notin RubberSyms THEN heldBars
                      ELSE [heldBars EXCEPT ![sym] =
                              HeldAfterOrder(@, exPos[sym], newEx[sym], sg,
                                             opening /\ took)]
                 /\ daily' = IF closing THEN c.daily ELSE daily
                 /\ rubberMeta' =
                      IF closing /\ c.status = "closed" /\ sym \in {"ETH", "SOL"}
                      THEN _clear_rubber_meta(rubberMeta, sym)
                      ELSE IF opening /\ out \in {"filled", "partial"}
                      THEN _save_rubber_meta(rubberMeta, sg)
                      ELSE rubberMeta
                 /\ gateRun' = IF gated THEN [ran |-> TRUE, failing |-> gate]
                               ELSE NoGate
                 /\ execIdx' = execIdx + 1
                 /\ lastOp' = "exec"
                 /\ pc' = pc
    /\ UNCHANGED <<now, ks, positions, wrMeta, revPending, sigFile,
                   failCount, sigList, scanFailed, closeQueue, flipped, wrRun>>
    /\ UNCHANGED libVars

\* execute_signals() after the loop: "if results:".
HasResults(res) == res # <<>>

\* execute_signals() after the loop: when at least one signal produced a
\* result, sync_positions (which reconciles the daily unrealized and sweeps
\* the meta files) and then update_daily_pnl with the exchange's unrealized.
\*   syncOk: the position query succeeded; upnl: sum of unrealized_pnl over
\*   the returned positions; eq: get_equity().
ExecFinish(syncOk, upnl, eq) ==
    /\ pc = "exec_signal"
    /\ execIdx > Len(sigFile.signals)
    /\ LET synced == SyncPositions(exPos, syncOk)
           hasPos == \E s \in Symbols : synced[s] # "none"
           d1 == reconcile_daily_unrealized(daily, upnl)
       IN /\ ~hasPos => upnl = 0
          /\ IF HasResults(results)
             THEN /\ positions' = synced
                  /\ rubberMeta' = SweepRubber(rubberMeta, synced)
                  /\ wrMeta' = SweepWr(wrMeta, synced)
                  /\ revPending' = SweepPending(revPending, synced)
                  /\ daily' = IF eq > 0
                              THEN update_daily_pnl(d1, Today, eq, 0, Api(upnl))
                              ELSE d1
             ELSE UNCHANGED <<positions, rubberMeta, wrMeta, revPending,
                              daily>>
    /\ pc' = "monitor"
    /\ lastOp' = "exec_done"
    /\ UNCHANGED <<now, ks, exPos, sigFile, failCount, sigList, scanFailed,
                   execIdx, results, closeQueue, orders, flipped, heldBars,
                   wrRun, gateRun>>
    /\ UNCHANGED libVars

\* ================================================================== monitor
\* The symbols positions.json lists, in file order.
RECURSIVE OpenSymbols(_, _)
OpenSymbols(pos, i) ==
    IF i > Len(SymOrder) THEN <<>>
    ELSE (IF pos[SymOrder[i]] # "none" THEN <<SymOrder[i]>> ELSE <<>>)
         \o OpenSymbols(pos, i + 1)

\* run_monitor() step 4b: the risk limits are evaluated when the switch is
\* not active and the equity passes the sanity check.
MonitorTriggers ==
    /\ daily.exists /\ daily.equity > 0
    /\ ~is_active(ks)
    /\ ~(daily.sod > 0 /\ daily.equity * 10 < daily.sod)
    /\ \/ check_daily_loss(daily, daily.equity)
       \/ check_max_drawdown(daily.equity, daily.peak)

\* run_monitor(): on a breached limit the switch is activated and
\* _close_all_positions starts over the cached positions.
Monitor ==
    /\ pc = "monitor"
    /\ IF MonitorTriggers
       THEN /\ ks' = activate(ks)
            /\ flipped' = TRUE
            /\ closeQueue' = OpenSymbols(positions, 1)
            /\ pc' = IF OpenSymbols(positions, 1) = <<>> THEN "collect"
                     ELSE "monitor_close"
       ELSE /\ pc' = "collect"
            /\ UNCHANGED <<ks, flipped, closeQueue>>
    /\ execIdx' = 1
    /\ results' = <<>>
    /\ orders' = {}
    /\ gateRun' = NoGate
    /\ lastOp' = "monitor"
    /\ UNCHANGED <<now, exPos, positions, rubberMeta, wrMeta, revPending,
                   sigFile, daily, failCount, sigList, scanFailed, heldBars,
                   wrRun>>
    /\ UNCHANGED libVars

\* _close_all_positions(): executor.close_position for the next cached
\* position; an exception ends the loop.
MonitorClose(out, pnl, eq) ==
    /\ pc = "monitor_close"
    /\ closeQueue # <<>>
    /\ out \in {"closed", "failed", "exception"}
    /\ LET sym == Head(closeQueue)
           c == close_position(sym, exPos, positions, daily, Today, out, pnl, eq)
           rest == IF out = "exception" THEN <<>> ELSE Tail(closeQueue)
       IN /\ (out # "closed" \/ exPos[sym] = "none") => pnl = 0 /\ eq = 0
          /\ Abs(daily.realized + pnl) <= MaxAbsRealized
          /\ exPos' = c.ex
          /\ heldBars' = [s \in RubberSyms |->
                            IF c.ex[s] = "none" THEN NotHeld ELSE heldBars[s]]
          /\ daily' = c.daily
          /\ orders' = orders \cup {Order(sym, "close")}
          /\ closeQueue' = rest
          /\ pc' = IF rest = <<>> THEN "collect" ELSE "monitor_close"
    /\ lastOp' = "monitor"
    /\ UNCHANGED <<now, ks, positions, rubberMeta, wrMeta, revPending, sigFile,
                   failCount, sigList, scanFailed, execIdx, results, flipped,
                   wrRun, gateRun>>
    /\ UNCHANGED libVars

\* ============================================================ specifications
Mids == {NoPx} \cup Levels
Verdicts == {"skip", "risk_error", "reject", "pass"}
CloseOutcomes == {"closed", "failed", "exception"}
Outcomes == CloseOutcomes \cup {"lev_error", "filled", "partial"}

\* ---- the kill switch over the whole cycle.  Wave Rider is switched off in
\* settings.yaml, only the ETH strategy finds spikes, and the account moves
\* enough for the supervisor's loss limit to trip.
RubberOnlyCfg == [wr_enabled |-> FALSE, reversion_enabled |-> FALSE,
              hype_enabled |-> FALSE, thursday_only |-> TRUE,
              close_only |-> FALSE]
SwitchMinutes == {540}
SwitchEquity == {94, 100}
SwitchUpnl == {-6, 0}

NextSwitch ==
    \/ \E t \in NextInstants(Timeline(SwitchMinutes), now), eq \in SwitchEquity :
          Collect(t, eq)
    \/ Deactivate
    \/ BrainContextOk
    \/ BrainContextExhausted
    \/ BrainContextFailed
    \/ \E c \in BOOLEAN : BrainBtc(MidPx, c, "none")
    \/ BrainWrBtc(RubberOnlyCfg, MidPx, FALSE, 0, FALSE, NormalAtr)
    \/ BrainWrHype(RubberOnlyCfg, MidPx, FALSE, 0)
    \/ \E m \in {LowPx, MidPx}, c \in BOOLEAN, ch \in {"none", "long_time_cut"} :
          BrainEth(m, c, ch)
    \/ \E c \in BOOLEAN : BrainSol(MidPx, c, "none")
    \/ BrainMerge
    \/ BrainRubberExhausted
    \/ ExecBegin
    \/ \E v \in Verdicts, out \in Outcomes, op \in BOOLEAN,
          eq \in SwitchEquity \cup {0} :
          ExecSignal(RubberOnlyCfg, v, {}, out, op, 0, eq)
    \/ \E ok \in BOOLEAN, u \in SwitchUpnl, eq \in SwitchEquity :
          ExecFinish(ok, u, eq)
    \/ Monitor
    \/ \E out \in CloseOutcomes, eq \in SwitchEquity \cup {0} :
          MonitorClose(out, 0, eq)

SpecSwitch == Init /\ [][NextSwitch]_vars

\* ---- the arbiter and the executor over the trading hours of a Thursday and
\* the following day.  The account is flat (no P&L), so the supervisor's
\* limits never trip and the context is always built; the BTC strategy finds
\* zone spikes only, the ETH and SOL strategies none.
ArbiterMinutes == {900, 1200, 1215}
ArbiterEquity == {100}
OpenMoveVals == {-90, 0, 30, 70}     \* open_move in basis points

NextArbiter ==
    \/ \E t \in NextInstants(Timeline(ArbiterMinutes), now), eq \in ArbiterEquity :
          Collect(t, eq)
    \/ BrainContextOk
    \/ \E c \in BOOLEAN, ch \in ZoneChoices : BrainBtc(MidPx, c, ch)
    \/ \E m \in Mids, b \in BOOLEAN, o \in OpenMoveVals, dv \in BOOLEAN :
          BrainWrBtc(FullCfg, m, b, o, dv, NormalAtr)
    \/ \E m \in Mids, b \in BOOLEAN, o \in OpenMoveVals :
          BrainWrHype(FullCfg, m, b, o)
    \/ BrainEth(MidPx, TRUE, "none")
    \/ BrainSol(MidPx, TRUE, "none")
    \/ BrainMerge
    \/ ExecBegin
    \/ \E v \in {"reject", "pass"}, out \in {"closed", "failed", "filled"},
          op \in {FALSE}, eq \in ArbiterEquity \cup {0} :
          ExecSignal(FullCfg, v, {}, out, op, 0, eq)
    \/ \E eq \in ArbiterEquity : ExecFinish(TRUE, 0, eq)
    \/ Monitor

SpecArbiter == InitDeployed /\ [][NextArbiter]_vars

\* ---- the daily P&L ledger over several days.  Wave Rider is switched off,
\* only the SOL strategy finds spikes; the equity, the unrealized P&L of the
\* open positions and the realized P&L of a close are read independently
\* from the exchange.
LedgerMinutes == {540}
LedgerEquity == {100, 105}
LedgerUpnl == {0, 5}
LedgerPnl == {-3, 0, 3}

NextLedger ==
    \/ \E t \in NextInstants(Timeline(LedgerMinutes), now),
          eq \in LedgerEquity \cup {0} :
          Collect(t, eq)
    \/ Deactivate
    \/ BrainContextOk
    \/ BrainBtc(MidPx, TRUE, "none")
    \/ BrainWrBtc(RubberOnlyCfg, MidPx, FALSE, 0, FALSE, NormalAtr)
    \/ BrainWrHype(RubberOnlyCfg, MidPx, FALSE, 0)
    \/ BrainEth(MidPx, TRUE, "none")
    \/ \E m \in Levels, ch \in ScanChoices("SOL") : BrainSol(m, TRUE, ch)
    \/ BrainMerge
    \/ ExecBegin
    \/ \E v \in {"reject", "pass"}, out \in {"closed", "failed", "filled"},
          p \in LedgerPnl, eq \in LedgerEquity \cup {0} :
          ExecSignal(RubberOnlyCfg, v, {}, out, FALSE, p, eq)
    \/ \E ok \in BOOLEAN, u \in LedgerUpnl, eq \in LedgerEquity :
          ExecFinish(ok, u, eq)
    \/ Monitor
    \/ \E out \in CloseOutcomes, p \in LedgerPnl, eq \in LedgerEquity \cup {0} :
          MonitorClose(out, p, eq)

SpecLedger == InitDeployed /\ [][NextLedger]_vars

\* ---- the BTC Wave Rider's holding logic at full price resolution: entry
\* at 15:00, adaptive stop while holding, time stop at 20:00, reversion.
\* Positions are entered at a round price (EntryMids).
AdaptiveMinutes == {540, 900, 1200, 1215}
EntryMids == {10000}
FineMids == {9900, 9960, 10050, 10100} \cup EntryMids
AtrRatios == {50, 100, 150, 200}          \* percent
AdaptiveMoves == {0, 30, 70}              \* open_move in basis points

NextAdaptive ==
    \E t \in NextInstants(Timeline(AdaptiveMinutes), now), m \in FineMids,
       b \in BOOLEAN, o \in AdaptiveMoves, dv \in BOOLEAN, a \in AtrRatios :
       /\ wrMeta["BTC"].phase = "" => m \in EntryMids
       /\ WaveRiderRun(FullCfg, t, m, b, o, dv, a)

SpecAdaptive == InitDeployed /\ [][NextAdaptive]_vars

\* ---- the executor's handling of one batch.  Wave Rider is switched off;
\* the BTC strategy finds quiet-market longs, the ETH and SOL strategies
\* spikes, so that a batch holds up to three signals; the risk validation, the entry gate
\* and the exchange answer independently.  The account is flat (no P&L).
ExecutorMinutes == {540}
ExecutorEquity == {100}
GateFailures == {{}, {"equity_drift"}, {"rr"}, {"data_quality", "rr"},
                 {"data_quality", "entry_cooldown"},
                 {"equity_drift", "data_quality", "mm_context",
                  "entry_cooldown"}}

NextExecutor ==
    \/ \E t \in NextInstants(Timeline(ExecutorMinutes), now),
          eq \in ExecutorEquity :
          Collect(t, eq)
    \/ BrainContextOk
    \/ \E ch \in {"none", "long_quiet"} : BrainBtc(MidPx, TRUE, ch)
    \/ BrainWrBtc(RubberOnlyCfg, MidPx, FALSE, 0, FALSE, NormalAtr)
    \/ BrainWrHype(RubberOnlyCfg, MidPx, FALSE, 0)
    \/ \E m \in {LowPx, MidPx}, ch \in {"none", "long_time_cut"} :
          BrainEth(m, TRUE, ch)
    \/ \E ch \in {"none", "short_tp_sl"} : BrainSol(MidPx, TRUE, ch)
    \/ BrainMerge
    \/ ExecBegin
    \/ \E v \in Verdicts, g \in GateFailures, out \in Outcomes, op \in BOOLEAN,
          eq \in ExecutorEquity \cup {0} :
          ExecSignal(RubberOnlyCfg, v, g, out, op, 0, eq)
    \/ \E ok \in BOOLEAN, eq \in ExecutorEquity : ExecFinish(ok, 0, eq)
    \/ Monitor

SpecExecutor == InitDeployed /\ [][NextExecutor]_vars

\* ---- record_trade run by two processes at once.
\* record_trade, first half: read_json(path) (the shared lock is released
\* when read_json returns).
RecordTradeRead(p) ==
    /\ journal.at[p] = "idle"
    /\ LET k == Cardinality({t \in journal.recorded : t[1] = p}) + 1
       IN /\ k <= MaxTrades
          /\ journal' = [journal EXCEPT !.at[p] = "append",
                                        !.read[p] = journal.history,
                                        !.trade[p] = <<p, k>>]
    /\ UNCHANGED besidesJournal

\* record_trade, second half: history.append(trade), truncation and
\* atomic_write_json (temp file renamed over trade_history.json).
RecordTradeWrite(p) ==
    /\ journal.at[p] = "append"
    /\ journal' = [journal EXCEPT
                     !.at[p] = "idle",
                     !.history = LastEntries(Append(journal.read[p],
                                                    journal.trade[p]),
                                             MAX_TRADE_HISTORY),
                     !.read[p] = <<>>,
                     !.recorded = @ \cup {journal.trade[p]}]
    /\ UNCHANGED besidesJournal

NextJournal ==
    \/ \E p \in Procs : RecordTradeRead(p)
    \/ \E p \in Procs : RecordTradeWrite(p)

InitJournal ==
    /\ CycleInit({deactivate(KsAbsent)})
    /\ LibIdle({"journal"})
    /\ journal = NoJournal

SpecJournal == InitJournal /\ [][NextJournal]_vars


\* ---- writers of the state, signal and meta files against a reader.
\* atomic_write_json(filepath, data): the temp file is invisible to readers
\* of filepath; the rename replaces the content in one step.
AtomicWriteJson(f) ==
    /\ ~disk.writing[f]
    /\ disk.version[f] < MaxVersion
    /\ disk' = [disk EXCEPT !.version[f] = @ + 1,
                            !.file[f] = Content(disk.version[f] + 1)]
    /\ UNCHANGED besidesDisk

\* Path.write_text, opening: the target is created or truncated.
WriteTextOpen(f) ==
    /\ f \in WriteTextFiles
    /\ ~disk.writing[f]
    /\ disk.version[f] < MaxVersion
    /\ disk' = [disk EXCEPT !.version[f] = @ + 1,
                            !.writing[f] = TRUE,
                            !.file[f] = [exists |-> TRUE, data |-> <<>>]]
    /\ UNCHANGED besidesDisk

\* Path.write_text, writing: the next block reaches the file; the file is
\* closed after the last one.
WriteTextBlock(f) ==
    /\ disk.writing[f]
    /\ LET d == Append(disk.file[f].data, disk.version[f])
       IN disk' = [disk EXCEPT !.file[f].data = d,
                               !.writing[f] = Len(d) < FileBlocks]
    /\ UNCHANGED besidesDisk

\* A reader in another process reads the file as it is now.
ReadFile(f) ==
    /\ disk' = [disk EXCEPT !.seen = disk.file[f], !.seenOf = f]
    /\ UNCHANGED besidesDisk

NextDisk ==
    \/ \E f \in Files : AtomicWriteJson(f)
    \/ \E f \in Files : WriteTextOpen(f)
    \/ \E f \in Files : WriteTextBlock(f)
    \/ \E f \in Files : ReadFile(f)

InitDisk ==
    /\ CycleInit({deactivate(KsAbsent)})
    /\ LibIdle({"disk"})
    /\ disk = NoDisk

SpecDisk == InitDisk /\ [][NextDisk]_vars

\* ---- call_with_retry on its own: any number of calls, one after the other,
\* of an operation that returns or raises one of two errors.
\* call_with_retry(fn, max_retries=m, base_delay=d[1], max_delay=d[2]): entry
\* of _execute_with_retry.
CallWithRetry(m, d) ==
    /\ retry.at = "idle"
    /\ retry' = [NoRetry EXCEPT !.at = "calling", !.max_retries = m,
                                !.delay = d[1], !.max_delay = d[2]]
    /\ UNCHANGED besidesRetry

\* One iteration of `for attempt in range(max_retries + 1)`: fn is invoked and
\* returns (outcome "ok") or raises; after a failure with attempts left the
\* loop sleeps min(delay, max_delay) and multiplies delay.  The loop never
\* runs out: its last iteration returns or raises.
RetryAttempt(outcome) ==
    /\ retry.at = "calling"
    /\ Len(retry.calls) < retry.max_retries + 1
    /\ LET attempt == Len(retry.calls)
           calls2 == Append(retry.calls, outcome)
       IN IF outcome = "ok"
          THEN retry' = [retry EXCEPT !.calls = calls2, !.at = "returned"]
          ELSE IF remaining(retry.max_retries, attempt) <= 0
          THEN retry' = [retry EXCEPT !.calls = calls2, !.last_error = outcome,
                                      !.at = "exhausted"]
          ELSE retry' = [retry EXCEPT
                            !.calls = calls2, !.last_error = outcome,
                            !.slept = Append(@, Min(retry.delay, retry.max_delay)),
                            !.delay = @ * backoff_factor]
    /\ UNCHANGED besidesRetry

\* The caller has the result or has handled RetryExhausted.
RetryDone ==
    /\ retry.at \in {"returned", "exhausted"}
    /\ retry' = NoRetry
    /\ UNCHANGED besidesRetry

NextRetry ==
    \/ \E m \in 0..MaxRetries, d \in RetryDelays : CallWithRetry(m, d)
    \/ \E outcome \in {"ok"} \cup Errors : RetryAttempt(outcome)
    \/ RetryDone

InitRetry ==
    /\ CycleInit({deactivate(KsAbsent)})
    /\ LibIdle({"retry"})
    /\ retry = NoRetry

SpecRetry == InitRetry /\ [][NextRetry]_vars

\* ---- two runs of sync_positions in succession, the exchange unchanged.
\* StateManager.sync_positions(client): the positions file takes the client's
\* answer, the daily unrealized is reconciled with it and the meta files of
\* symbols without a position are removed; when saving raises, nothing is
\* written.
SyncPositionsRun(outcome) ==
    /\ syncRun.runs < 2
    /\ LET got == SyncPositions(syncRun.ex, outcome # "query_failed")
           got_upnl == IF outcome = "query_failed" THEN 0 ELSE syncRun.upnl
           after == IF outcome = "save_failed"
                    THEN syncRun
                    ELSE [syncRun EXCEPT
                            !.positions = got,
                            !.daily = reconcile_daily_unrealized(@, got_upnl),
                            !.rubberMeta = SweepRubber(@, got),
                            !.wrMeta = SweepWr(@, got),
                            !.revPending = SweepPending(@, got)]
       IN syncRun' = [after EXCEPT
                         !.runs = @ + 1,
                         !.first = IF syncRun.runs = 0 THEN SyncFiles(after)
                                   ELSE @]
    /\ UNCHANGED besidesSyncRun

NextSync == \E outcome \in SyncOutcomes : SyncPositionsRun(outcome)

InitSync ==
    /\ CycleInit({deactivate(KsAbsent)})
    /\ LibIdle({"syncRun"})
    /\ syncRun \in SyncStarts

SpecSync == InitSync /\ [][NextSync]_vars

\* ---- _build_next_cache on its own, over short candle lists and windows.
\* BtcRubberWall / EthRubberBand / SolRubberWall call _build_next_cache(idx)
\* at the end of a scan of the latest confirmed candle: one more candle of
\* volume v has closed since the previous scan.
BuildNextCache(sym, v, vol_window) ==
    /\ Len(cache.candles) < MaxCandles
    /\ LET candles == Append(cache.candles, v)
       IN cache' = _build_next_cache(candles, Len(candles) - 1, vol_window,
                                     CacheThresholds[sym])
    /\ UNCHANGED besidesCache

NextCache ==
    \/ \E v \in Volumes, w \in 2..MaxWindow : BuildNextCache("BTC", v, w)
    \/ \E v \in Volumes, w \in 2..MaxWindow : BuildNextCache("ETH", v, w)
    \/ \E v \in Volumes, w \in 2..MaxWindow : BuildNextCache("SOL", v, w)

InitCache ==
    /\ CycleInit({deactivate(KsAbsent)})
    /\ LibIdle({"cache"})
    /\ cache = NoCache

SpecCache == InitCache /\ [][NextCache]_vars

\* ---- place_market_order on its own.
\* HLClient.place_market_order(coin, side, size, leverage) of a client that
\* is read-only or not; `calls` lists the exchange methods invoked, in order.
PlaceMarketOrder(coin, side, leverage, read_only, lev_resp, open_resp) ==
    /\ read_only => lev_resp = "ok" /\ open_resp = "filled"
    /\ leverage_failed(lev_resp) => open_resp = "filled"
    /\ LET base == [NoOrder EXCEPT !.done = TRUE, !.coin = coin, !.side = side,
                                   !.leverage = leverage]
           status == IF _is_order_success(open_resp) /\ HasFillPrice(open_resp)
                     THEN "filled"
                     ELSE IF _is_order_partial(open_resp) THEN "partial"
                     ELSE "failed"
       IN order' =
            IF read_only
            THEN [base EXCEPT !.status = "raised"]
            ELSE IF leverage_failed(lev_resp)
            THEN [base EXCEPT !.lev = lev_resp,
                              !.calls = <<"update_leverage">>,
                              !.status = "error"]
            ELSE IF open_resp = "raised"
            THEN [base EXCEPT !.lev = lev_resp,
                              !.calls = <<"update_leverage", "market_open">>,
                              !.status = "raised"]
            ELSE [base EXCEPT !.lev = lev_resp,
                              !.calls = <<"update_leverage", "market_open">>,
                              !.status = status,
                              !.success = status \in {"filled", "partial"}]
    /\ UNCHANGED besidesOrder

NextOrder ==
    \E coin \in Symbols, side \in {"long", "short"}, leverage \in Leverages,
       read_only \in BOOLEAN, lev_resp \in LevResponses,
       open_resp \in OpenResponses :
       PlaceMarketOrder(coin, side, leverage, read_only, lev_resp, open_resp)

InitOrder ==
    /\ CycleInit({deactivate(KsAbsent)})
    /\ LibIdle({"order"})
    /\ order = NoOrder

SpecOrder == InitOrder /\ [][NextOrder]_vars

\* ---- merge_signals on its own, called for one symbol at minute MergeNow.
\* merge_signals(technician_output, flow_output, risk_output, [symbol],
\* positions, min_confidence, market_data, trade_history): both agents report
\* the confidence conf.
MergeSignals(sym, t_action, f_action, conf, r, pos_opened, hist_opened, bearish) ==
    /\ ~arbiter.done
    /\ LET out == MergeSymbol(t_action, f_action, conf, r, pos_opened,
                              hist_opened, MergeNow, bearish)
           has_trade == /\ out.action \in {"long", "short", "close"}
                        /\ out.confidence >= min_confidence
           has_close == out.action = "close"
       IN arbiter' = [done |-> TRUE, symbol |-> sym, t_action |-> t_action,
                      f_action |-> f_action, r |-> r,
                      pos_opened |-> pos_opened, hist_opened |-> hist_opened,
                      at |-> MergeNow, out |-> out,
                      action_type |-> IF has_trade \/ has_close THEN "trade"
                                      ELSE "hold"]
    /\ UNCHANGED besidesArbiter

\* The caller has taken the merged batch.
MergeTaken ==
    /\ arbiter.done
    /\ arbiter' = NoMerge
    /\ UNCHANGED besidesArbiter

NextMerge ==
    \/ \E sym \in {"BTC", "ETH"}, ta \in AgentActions, fa \in AgentActions,
          conf \in {60, 80}, r \in RiskDecisions, po \in PositionOpenedAts,
          ho \in HistoryOpenedAts, bearish \in BOOLEAN :
          MergeSignals(sym, ta, fa, conf, r, po, ho, bearish)
    \/ MergeTaken

InitMerge ==
    /\ CycleInit({deactivate(KsAbsent)})
    /\ LibIdle({"arbiter"})
    /\ arbiter = NoMerge

SpecMerge == InitMerge /\ [][NextMerge]_vars

\* ---- the collector's archive step and load_history on their own.
\* The wall clock passes to the next second.
ArchiveClockTick ==
    /\ archive.clock < MaxSecond
    /\ archive' = [archive EXCEPT !.clock = @ + 1]
    /\ UNCHANGED besidesArchive

\* collect(): archive_market_data(settings) of the market_data.json just
\* written, then rotate_old (this day's directory is never older than the
\* cutoff).  Writing the gzip file may fail; the error is logged.
ArchiveMarketData(written) ==
    /\ Len(archive.archived) < MaxSnapshots
    /\ LET data == Len(archive.archived) + 1
       IN archive' = IF written
                     THEN [archive EXCEPT !.files[archive.clock] = data,
                                          !.archived = Append(@, data),
                                          !.loaded = <<>>,
                                          !.loadedDone = FALSE]
                     ELSE [archive EXCEPT !.loaded = <<>>, !.loadedDone = FALSE]
    /\ UNCHANGED besidesArchive

\* load_history(days)
LoadHistory ==
    /\ ~archive.loadedDone
    /\ archive' = [archive EXCEPT !.loaded = SortedSnapshots(archive.files, 0),
                                  !.loadedDone = TRUE]
    /\ UNCHANGED besidesArchive

NextArchive ==
    \/ ArchiveClockTick
    \/ \E written \in BOOLEAN : ArchiveMarketData(written)
    \/ LoadHistory

InitArchive ==
    /\ CycleInit({deactivate(KsAbsent)})
    /\ LibIdle({"archive"})
    /\ archive = NoArchive

SpecArchive == InitArchive /\ [][NextArchive]_vars

\* ---- the executor's batch when all four strategies find an entry in one
\* cycle: Thursday 15:00, HYPE Wave Rider switched on, every order fills.
ConcurrentCfg == [RubberOnlyCfg EXCEPT !.hype_enabled = TRUE]
ConcurrentMinutes == {900, 905}
ConcurrentEquity == {100}

NextConcurrent ==
    \/ \E t \in NextInstants(Timeline(ConcurrentMinutes), now),
          eq \in ConcurrentEquity :
          Collect(t, eq)
    \/ BrainContextOk
    \/ \E ch \in {"none", "long_quiet"} : BrainBtc(MidPx, TRUE, ch)
    \/ BrainWrBtc(ConcurrentCfg, MidPx, FALSE, 0, FALSE, NormalAtr)
    \/ \E b \in BOOLEAN, o \in {0, 70} : BrainWrHype(ConcurrentCfg, MidPx, b, o)
    \/ \E ch \in {"none", "long_time_cut"} : BrainEth(MidPx, TRUE, ch)
    \/ \E ch \in {"none", "short_tp_sl"} : BrainSol(MidPx, TRUE, ch)
    \/ BrainMerge
    \/ ExecBegin
    \/ \E v \in {"pass", "reject"}, out \in {"filled", "failed"} :
          ExecSignal(ConcurrentCfg, v, {}, out, FALSE, 0, 0)
    \/ \E ok \in BOOLEAN, eq \in ConcurrentEquity : ExecFinish(ok, 0, eq)
    \/ Monitor

SpecConcurrent == InitDeployed /\ [][NextConcurrent]_vars

\* ---- the strategy run retried by call_with_retry
AttemptsOf(t) == IF t.at = now THEN t ELSE NoTry

InList(list, sym, action) ==
    \E i \in 1..Len(list) : list[i].symbol = sym /\ list[i].action = action

\* The Wave Rider sections of the failed attempt that returned a close signal
\* and unlinked their meta file.
WrPatterns == {"wr_up_large", "wr_down_large", "wr_up_medium_fade",
               "wr_up_large_rev"}
WrClosedIn(list) ==
    {s \in {"BTC", "HYPE"} :
        /\ wrMeta[s] = NoWr
        /\ \E i \in 1..Len(list) : /\ list[i].symbol = s
                                   /\ list[i].action = "close"
                                   /\ list[i].pattern \in WrPatterns}

\* bar_count in <sym>_rubber_meta.json before the failed attempt ran:
\* _check_rubber_exits saved bar_count + 1 exactly when it returned
\* hold_position for a time_cut meta.
BarsBefore(list) ==
    [s \in RubberSyms |->
        IF rubberMeta[s].direction = "" \/ rubberMeta[s].exit_mode # "time_cut"
        THEN NotHeld
        ELSE IF InList(list, s, "hold_position")
        THEN rubberMeta[s].bar_count - 1
        ELSE rubberMeta[s].bar_count]

\* _execute_with_retry: _run_rubber_wall raised after some of its sections
\* had run and attempts remain; the next attempt starts from the first
\* section with fresh locals and the files as the failed attempt left them.
\* heldBars keeps counting the section's runs.
RubberAttemptFails ==
    /\ pc \in {"brain_wr_btc", "brain_wr_hype", "brain_eth", "brain_sol",
               "brain_merge"}
    /\ remaining(StrategyMaxRetries, AttemptsOf(strategyTry).failed) > 0
    /\ strategyTry' =
         [at |-> now,
          failed |-> AttemptsOf(strategyTry).failed + 1,
          closed |-> AttemptsOf(strategyTry).closed \cup WrClosedIn(sigList),
          bars |-> IF AttemptsOf(strategyTry).failed = 0
                   THEN BarsBefore(sigList) ELSE strategyTry.bars]
    /\ sigList' = <<>>
    /\ scanFailed' = 0
    /\ pc' = "brain_btc"
    /\ lastOp' = "brain"
    /\ UNCHANGED <<now, ks, exPos, positions, rubberMeta, wrMeta, revPending,
                   sigFile, daily, failCount, execIdx, results, closeQueue,
                   orders, flipped, heldBars, wrRun, gateRun>>
    /\ UNCHANGED <<journal, disk, retry, syncRun, cache, order, arbiter,
                   archive, flag, scan>>

RetriedMinutes == {900, 1200}

NextRetried ==
    \/ \E t \in NextInstants(Timeline(RetriedMinutes), now) \ {now} :
          Collect(t, 100)
    \/ BrainContextOk
    \/ BrainBtc(MidPx, TRUE, "none")
    \/ BrainWrBtc(ConcurrentCfg, MidPx, FALSE, 0, FALSE, NormalAtr)
    \/ \E b \in BOOLEAN, o \in {0, 70} : BrainWrHype(ConcurrentCfg, MidPx, b, o)
    \/ \E ch \in {"none", "long_time_cut"} : BrainEth(MidPx, TRUE, ch)
    \/ BrainSol(MidPx, TRUE, "none")
    \/ RubberAttemptFails
    \/ BrainMerge
    \/ ExecBegin
    \/ \E v \in {"pass", "skip"}, out \in {"filled", "failed"} :
          ExecSignal(ConcurrentCfg, v, {}, out, FALSE, 0, 0)
    \/ \E ok \in BOOLEAN : ExecFinish(ok, 0, 100)
    \/ Monitor

SpecRetried == InitDeployed /\ [][NextRetried]_vars

\* ---- kill_switch.json under concurrent writers
\* enter_safe_hold / _trigger_agent_failure_alert: the file is read
\* (exists() + read_text, read_json); no lock is held after the read.
WarningRead(w) ==
    /\ flag.at[w] = "idle"
    /\ flag' = [flag EXCEPT !.at[w] = "read", !.read[w] = flag.file]
    /\ UNCHANGED besidesFlag

\* The warning fields are set on what was read and the file is written back
\* (write_text, atomic_write_json).
WarningWrite(w) ==
    /\ flag.at[w] = "read"
    /\ flag' = [flag EXCEPT !.at[w] = "idle",
                            !.file = IF w = "safe_hold"
                                     THEN enter_safe_hold_ks(flag.read[w])
                                     ELSE _trigger_agent_failure_alert(flag.read[w])]
    /\ UNCHANGED besidesFlag

\* kill_switch.activate(reason), called by the monitor.
KsActivate ==
    /\ flag' = [flag EXCEPT !.file = activate(flag.file), !.activated = TRUE]
    /\ UNCHANGED besidesFlag

\* kill_switch.deactivate().
KsDeactivate ==
    /\ flag' = [flag EXCEPT !.file = deactivate(flag.file),
                            !.activated = FALSE]
    /\ UNCHANGED besidesFlag

NextFlag ==
    \/ \E w \in WarningWriters : WarningRead(w)
    \/ \E w \in WarningWriters : WarningWrite(w)
    \/ KsActivate
    \/ KsDeactivate

InitFlag == CycleInit({deactivate(KsAbsent)}) /\ LibIdle({"flag"}) /\ flag = NoFlag

SpecFlag == InitFlag /\ [][NextFlag]_vars

\* ---- the spike scan with and without the threshold cache
\* One more bar of volume v has closed.  The previous scan left the cache
\* _build_next_cache built for this bar; scan(cache) takes the fast path
\* (next_target_t matches), scan(None) the slow path, over the same candles
\* and configuration.
RunScan(v, is_bear, atr, vol_window) ==
    /\ Len(scan.candles) < MaxCandles
    /\ LET c == _build_next_cache(scan.candles, Len(scan.candles) - 1,
                                  vol_window, CacheThresholds["BTC"])
           mult == _atr_volatility_multiplier(atr[1], atr[2])
           vol_threshold == CacheThresholds["BTC"] * mult
       IN scan' = [candles |-> Append(scan.candles, v), ran |-> TRUE,
                   regime |-> mult,
                   fast |-> ScanDecision(TRUE, c, v, is_bear, vol_threshold),
                   slow |-> ScanDecision(FALSE, c, v, is_bear, vol_threshold)]
    /\ UNCHANGED besidesScan

NextScan ==
    \E v \in Volumes \cup {20, 30}, is_bear \in BOOLEAN, atr \in AtrPairs,
       w \in {MaxWindow} :
        RunScan(v, is_bear, atr, w)

InitScan == CycleInit({deactivate(KsAbsent)}) /\ LibIdle({"scan"}) /\ scan = NoScan

SpecScan == InitScan /\ [][NextScan]_vars

\* =================================================================== claims
Actionable(sg) == sg.action \in {"long", "short", "close"}
BatchHasActionable ==
    \E i \in 1..Len(sigFile.signals) : Actionable(sigFile.signals[i])

C2_AbsentBlocksExecutor ==
    (lastOp = "exec_done" /\ ~ks.exists) => (results = <<>> /\ orders = {})

\* C3: safe-hold and the agent-failure alert leave is_active() as it was,
\* whether or not kill_switch.json existed beforehand.
C3_RetryNeverFlips ==
    [][lastOp' \in {"safe_hold", "agent_failure_alert"}
          => is_active(ks') = is_active(ks)]_vars

\* C4: once the supervisor has flipped the switch, every execute_signals
\* call returns [] without evaluating a signal or placing an order, until
\* the switch is deactivated.
C4_FlippedBlocksExecutor ==
    (flipped /\ lastOp = "exec_done")
        => (results = <<>> /\ orders = {} /\ execIdx = 1)

\* execute_signals has returned on an actionable batch after the flip.
C4_Witness == flipped /\ lastOp = "exec_done" /\ BatchHasActionable

Batch == sigFile.signals
IsEntry(sg) == sg.action \in {"long", "short"}
OrderedFor(sym) == \E o \in orders : o.symbol = sym

\* ExitMeta(S): a rubber meta file or a Wave Rider meta file for S.
HasExitMeta(sym) ==
    \/ sym \in RubberSyms /\ rubberMeta[sym].direction # ""
    \/ sym \in WrSyms /\ wrMeta[sym].phase # ""

\* The action of the last signal for sym in signals.json ("" when none).
LatestAction(sym) ==
    LET idx == {i \in 1..Len(Batch) : Batch[i].symbol = sym}
    IN IF idx = {} THEN ""
       ELSE Batch[CHOOSE i \in idx : \A j \in idx : j <= i].action

\* C5: for every hold_position signal of the batch, execute_signals issues
\* neither market_open nor market_close for that symbol.
C5_HoldPositionNoOrder ==
    lastOp = "exec_done" =>
        \A i \in 1..Len(Batch) :
            Batch[i].action = "hold_position" => ~OrderedFor(Batch[i].symbol)

\* C6: at the end of every cycle, each symbol listed in positions.json has an
\* ExitMeta file or its latest signal is hold_position.
C6_PositionHasMetaOrHold ==
    (pc = "collect" /\ lastOp = "monitor") =>
        \A sym \in Symbols :
            positions[sym] # "none" =>
                HasExitMeta(sym) \/ LatestAction(sym) = "hold_position"

\* C7: a batch holding a close or hold_position signal for a symbol holds no
\* long/short signal for that symbol.
C7_ExitIsAuthoritative ==
    \A i \in 1..Len(Batch), j \in 1..Len(Batch) :
        (Batch[i].action \in {"close", "hold_position"}
         /\ Batch[j].symbol = Batch[i].symbol) => ~IsEntry(Batch[j])

\* C8: the arbiter emits no long/short signal for a symbol that
\* positions.json lists as live.
C8_NoEntryOnLivePosition ==
    pc = "exec_begin" =>
        \A i \in 1..Len(Batch) :
            IsEntry(Batch[i]) => positions[Batch[i].symbol] = "none"

\* C9: after execute_signals completes, the daily record satisfies
\* |equity - (start_of_day_equity + realized_pnl + unrealized_pnl)| <= $1.
C9_LedgerBalances ==
    (lastOp = "exec_done" /\ daily.exists) =>
        Abs(daily.equity - (daily.sod + daily.realized + daily.unrealized))
            <= ToleranceUsd

\* C10: within one UTC day peak_equity never decreases, and every change
\* sets it to start_of_day_equity + realized_pnl.
C10_PeakFromRealized ==
    [][(daily.exists /\ daily'.date = daily.date) =>
          /\ daily'.peak >= daily.peak
          /\ daily'.peak # daily.peak =>
                daily'.peak = daily'.sod + daily'.realized]_vars

\* A realized gain has raised the peak while an unrealized gain is booked.
C10_Witness ==
    /\ daily.exists
    /\ daily.realized > 0
    /\ daily.peak = daily.sod + daily.realized
    /\ daily.unrealized > 0
    /\ daily.equity > daily.peak

\* C11: the first daily-P&L update after the UTC date changes stores
\* start_of_day_equity = equity, realized_pnl = 0, unrealized_pnl = 0 and
\* peak_equity = equity.
C11_ResetOnDateChange ==
    [][(daily.exists /\ daily'.date # daily.date) =>
          /\ daily'.sod = daily'.equity
          /\ daily'.realized = 0
          /\ daily'.unrealized = 0
          /\ daily'.peak = daily'.equity]_vars

\* C12: a position opened from a time_cut entry with exit_bars = n gets a
\* close signal in the batch of the n-th cycle after the entry (and of every
\* later cycle while it is still open).
C12_TimeCutCloses ==
    pc = "exec_begin" =>
        \A sym \in RubberSyms :
            (heldBars[sym] >= ExitBars /\ exPos[sym] # "none") =>
                \E i \in 1..Len(Batch) :
                    Batch[i].symbol = sym /\ Batch[i].action = "close"

\* C13: a pending reversion written at the 20:00 time stop of a wr_up_large
\* position (entry_after = now + 15 min) stays until the first cycle past
\* entry_after, where the arbiter emits the BTC short and records the
\* reversion's SL and TP.
C13_PendingReversionFires ==
    [][(revPending # NoPending /\ revPending' # revPending) =>
          /\ now >= revPending
          /\ wrMeta'["BTC"].phase = "reversion"
          /\ Len(sigList') = Len(sigList) + 1
          /\ sigList'[Len(sigList')].symbol = "BTC"
          /\ sigList'[Len(sigList')].action = "short"]_vars

WrOriginalSl(m) ==
    IF m.phase = "reversion" THEN compute_rev_sl(m.entry)
    ELSE compute_sl(m.entry, m.direction)
WrProfitReached(m, price) ==
    IF m.direction = "long"
    THEN (price - m.entry) * 10000 >= breakeven_trigger_pct * m.entry
    ELSE (m.entry - price) * 10000 >= breakeven_trigger_pct * m.entry

C15_BreakevenReachesEntry ==
    (/\ lastOp = "wave_rider"
     /\ wrMeta["BTC"].phase # ""
     /\ sigList # <<>>
     /\ sigList[1].action = "hold_position"
     /\ WrProfitReached(wrMeta["BTC"], wrRun.mid))
        => IF wrMeta["BTC"].direction = "long"
           THEN wrMeta["BTC"].sl >= wrMeta["BTC"].entry
           ELSE wrMeta["BTC"].sl <= wrMeta["BTC"].entry


\* The record of the signal execute_signal has just returned from.
LastResult == results[Len(results)]

\* The entry gate has just rejected a new long / short.
GateRejected ==
    pc = "exec_signal" /\ lastOp = "exec" /\ gateRun.ran /\ gateRun.failing # {}

GateIndex(c) == CHOOSE i \in 1..Len(GateChecks) : GateChecks[i] = c

FirstFailing(failing) ==
    CHOOSE c \in failing : \A d \in failing : GateIndex(c) <= GateIndex(d)

\* C16 as stated: when the composite entry gate rejects a new long / short,
\* the reported reason is that of the first failing check alone.
C16_FirstFailingReasonOnly ==
    GateRejected =>
        /\ LastResult.status = "rejected"
        /\ LastResult.reason = <<FirstFailing(gateRun.failing)>>

\* C16 amended: when the composite entry gate rejects a new long / short, the
\* reported reason lists the reasons of all the failing checks, each once, in
\* the order equity drift, consensus quality, daily-loss budget, data
\* quality, spread/imbalance, cooldown, R:R; it therefore begins with the
\* reason of the first failing check.
C16_AllFailingReasonsInOrder ==
    GateRejected =>
        LET r == LastResult.reason
        IN /\ LastResult.status = "rejected"
           /\ {r[i] : i \in 1..Len(r)} = gateRun.failing
           /\ \A i, j \in 1..Len(r) : i < j => GateIndex(r[i]) < GateIndex(r[j])
           /\ r[1] = FirstFailing(gateRun.failing)

C16_Witness ==
    /\ GateRejected
    /\ Len(LastResult.reason) >= 2
    /\ LastResult.reason[1] # GateChecks[1]


\* execute_signals has returned from a batch it read from signals.json.
BatchDone ==
    /\ pc = "monitor"
    /\ lastOp = "exec_done"
    /\ sigFile.exists
    /\ ~get_kill_switch_status(ks)

C18_CloseAlwaysAttempted ==
    BatchDone =>
        \A i \in 1..Len(Batch) :
            Batch[i].action = "close" => Order(Batch[i].symbol, "close") \in orders

\* sync_positions has just run: positions.json holds the exchange's answer
\* and no meta file is left for a symbol without a position.
PostBatchSynced ==
    /\ positions' \in {exPos', NoneSyms}
    /\ rubberMeta' = SweepRubber(rubberMeta', positions')
    /\ wrMeta' = SweepWr(wrMeta', positions')
    /\ revPending' = SweepPending(revPending', positions')

\* execute_signals leaves its signal loop.
BatchEnds == pc = "exec_signal" /\ pc' = "monitor"

\* C19: after every executor batch sync_positions and
\* reconcile_daily_unrealized are run, also when no signal of the batch
\* produced a result record.
C19_SyncAfterEveryBatch == [][BatchEnds => PostBatchSynced]_vars

\* C20: once execute_signal has returned from an entry signal that carries a
\* pattern and whose order was filled, an ExitMeta file exists for the symbol.
C20_FilledPatternEntryHasMeta ==
    (/\ pc = "exec_signal"
     /\ lastOp = "exec"
     /\ execIdx > 1
     /\ results # <<>>
     /\ IsEntry(Batch[execIdx - 1])
     /\ Batch[execIdx - 1].pattern # ""
     /\ LastResult.symbol = Batch[execIdx - 1].symbol
     /\ LastResult.status = "filled")
        => HasExitMeta(Batch[execIdx - 1].symbol)

\* C21: when two processes update the same state file concurrently, both
\* updates are in the final file: every trade whose record_trade call has
\* returned is listed in trade_history.json.
C21_NoLostUpdate ==
    \A t \in journal.recorded :
        \E i \in 1..Len(journal.history) : journal.history[i] = t


\* C22: a concurrent reader of a state, signal or ExitMeta file observes
\* either the complete previous content or the complete new content, never
\* a partially written file.
C22_ReaderSeesCompleteFile ==
    \/ disk.seen = NoFile
    \/ \E v \in 1..MaxVersion : disk.seen = Content(v)

\* The supervisor is about to run with a risk limit breached (the daily loss
\* percentage or the drawdown from the peak at or over its limit) and an
\* equity that passes the sanity check.
LimitBreached ==
    /\ pc = "monitor"
    /\ daily.exists /\ daily.equity > 0
    /\ ~(daily.sod > 0 /\ daily.equity * 10 < daily.sod)
    /\ \/ check_daily_loss(daily, daily.equity)
       \/ check_max_drawdown(daily.equity, daily.peak)

\* C23: whenever the supervisor runs while a risk limit is breached and the
\* equity passes the sanity check, the kill switch is enabled by the end of
\* that run.
C23_BreachEnablesSwitch ==
    [][LimitBreached => get_kill_switch_status(ks')]_vars

\* The supervisor's handling of a kill-switch trigger ends with this step.
TriggerHandled ==
    /\ pc' = "collect"
    /\ \/ pc = "monitor" /\ MonitorTriggers
       \/ pc = "monitor_close"

\* C24: once a kill-switch trigger has been handled, no position remains
\* open on the exchange.
C24_TriggerClosesAll ==
    [][TriggerHandled => exPos' = NoneSyms]_vars


\* The brain run ends after its three strategy sections have looked for
\* candles: BrainMerge or BrainRubberExhausted.
ScanEnds == pc = "brain_merge" /\ pc' = "exec_begin"

\* _run_rubber_wall's sections found no candles for any symbol they scan.
EverySymbolLacked == scanFailed >= 3

\* C25: after a cycle in which every symbol lacked candle data
\* consecutive_failures is one more than before, and after a cycle in which
\* some symbol had candle data it is 0.
C25_CounterTracksCandleData ==
    [][ScanEnds => failCount' = IF EverySymbolLacked THEN failCount + 1 ELSE 0]_vars


\* C26: call_with_retry invokes the operation at most max_retries + 1 times,
\* makes no call after a success, returns only on a success, and raises
\* RetryExhausted exactly when max_retries + 1 calls were made and all failed.
AllFailed(calls) == \A i \in 1..Len(calls) : calls[i] # "ok"
C26_RetryContract ==
    /\ Len(retry.calls) <= retry.max_retries + 1
    /\ \A i \in 1..(Len(retry.calls) - 1) : retry.calls[i] # "ok"
    /\ retry.at = "returned" => retry.calls[Len(retry.calls)] = "ok"
    /\ retry.at = "exhausted" <=>
          (Len(retry.calls) = retry.max_retries + 1 /\ AllFailed(retry.calls))
C26_Witness ==
    /\ retry.at = "exhausted"
    /\ retry.max_retries = 2
    /\ Len(retry.calls) = 3


\* C27: with the exchange unchanged, a second run of sync_positions leaves
\* positions.json as the first run left it and creates or deletes no meta
\* file.
C27_SyncIdempotent ==
    syncRun.runs = 2 => SyncFiles(syncRun) = syncRun.first


\* A next-bar volume of v tenths of the rounding unit makes the ratio
\* V / ((S + V) / N) reach the threshold T: V * (N - T) >= T * S.
FineUnits == 10
ReachesThreshold(v, n, t, s) == v * (n - t) >= t * s * FineUnits

\* C28: when N > T the cached threshold_vol is the least next-bar volume whose
\* ratio reaches T, and when N <= T it is +infinity.
C28_ThresholdIsMinimum ==
    cache.built =>
        IF cache.n_total > cache.threshold
        THEN /\ ~cache.threshold_vol.inf
             /\ ReachesThreshold(cache.threshold_vol.val * FineUnits,
                                 cache.n_total, cache.threshold, cache.sum_known)
             /\ \A v \in 0..(cache.threshold_vol.val * FineUnits - 1) :
                   ~ReachesThreshold(v, cache.n_total, cache.threshold,
                                     cache.sum_known)
        ELSE cache.threshold_vol.inf


\* C29: place_market_order calls market_open only after update_leverage, and
\* when the leverage update answers with an error status or raises,
\* market_open is not called and the returned status is "error".
MarketOpenCalled == \E i \in 1..Len(order.calls) : order.calls[i] = "market_open"
C29_LeverageBeforeOrder ==
    order.done =>
        /\ MarketOpenCalled =>
              order.calls = <<"update_leverage", "market_open">>
        /\ order.lev \in {"err", "raised"} =>
              ~MarketOpenCalled /\ order.status = "error" /\ ~order.success
C29_Witness ==
    /\ order.done
    /\ order.lev = "err"
    /\ order.calls = <<"update_leverage">>
    /\ order.status = "error"


\* A close is proposed by T, F or R for a position whose recorded opening is
\* less than 10 minutes before the merge.
CloseProposed ==
    \/ arbiter.t_action = "close"
    \/ arbiter.f_action = "close"
    \/ arbiter.r.final_action = "close"
OpenedAt ==
    IF arbiter.pos_opened # NoTime THEN arbiter.pos_opened
    ELSE arbiter.hist_opened
CloseWithinMinHold ==
    /\ arbiter.done
    /\ CloseProposed
    /\ OpenedAt # NoTime
    /\ arbiter.at - OpenedAt < 10

\* C30: a close proposed within 10 minutes of the position's opening becomes
\* hold, unless R's action is close with confidence >= 0.90; then it passes.
C30_MinHoldBlocksClose ==
    CloseWithinMinHold =>
        IF arbiter.r.final_action = "close" /\ arbiter.r.confidence >= 90
        THEN arbiter.out.action = "close"
        ELSE arbiter.out.action = "hold"
C30_Witness ==
    /\ CloseWithinMinHold
    /\ arbiter.r.final_action = "close"
    /\ arbiter.r.confidence = 85
    /\ arbiter.out.action = "hold"


\* C31: every collector run that archived left a snapshot of its own, also
\* when two ran within the same second, and load_history returns what each
\* run archived.
C31_ArchiveRoundTrip ==
    archive.loadedDone => archive.loaded = archive.archived


\* C32: when the executor's batch has ended, at most max_concurrent positions
\* are open.
C32_AtMostMaxConcurrent ==
    [][BatchEnds => OpenCount(exPos') <= max_concurrent]_vars


\* C33: the batch written at the end of the strategy run holds a close
\* signal for every symbol whose Wave Rider meta an attempt of the run
\* deleted on deciding to close, also when that attempt failed and the run
\* was retried.
C33_ExitDecisionKept ==
    [][ScanEnds =>
         \A s \in AttemptsOf(strategyTry).closed \cup WrClosedIn(sigList) :
             InList(sigFile'.signals, s, "close")]_vars


\* C35: in every cycle the exit check of a time_cut position counts one bar
\* more than the cycle started with, also when the strategy run was retried:
\* a position that is held has bar_count one above the start, and a position
\* is closed (at the price of SpecRetried no SL is hit) only when the start
\* plus one reaches exit_bars.
BarsAtStart(s) ==
    IF AttemptsOf(strategyTry).failed > 0
    THEN AttemptsOf(strategyTry).bars[s] ELSE BarsBefore(sigList)[s]
C35_OneBarPerCycle ==
    [][ScanEnds =>
         \A s \in RubberSyms :
            (rubberMeta[s].exit_mode = "time_cut" /\ BarsAtStart(s) # NotHeld) =>
               /\ InList(sigList, s, "hold_position") =>
                     rubberMeta[s].bar_count = BarsAtStart(s) + 1
               /\ InList(sigList, s, "close") =>
                     BarsAtStart(s) + 1 >= rubberMeta[s].exit_bars]_vars


\* C34: a position for which the previous batch held a close signal and
\* which is still open when the next strategy run ends gets a close signal
\* in the batch of that run too.
CloseStillDue(s) == InList(sigFile.signals, s, "close") /\ exPos[s] # "none"
C34_CloseEmittedAgain ==
    [][ScanEnds =>
         \A s \in Symbols :
            CloseStillDue(s) => InList(sigFile'.signals, s, "close")]_vars


\* C36: from activate() until deactivate() kill_switch.json says enabled,
\* whatever the warning writers do in between.
C36_EnabledUntilDeactivate == flag.activated => flag.file.enabled


\* C37: a run of sync_positions whose position query fails leaves
\* positions.json, the meta files and the pending-reversion file as they
\* were.
C37_FailedQueryKeepsFiles ==
    [][SyncPositionsRun("query_failed") =>
         /\ SyncFiles(syncRun') = SyncFiles(syncRun)
         /\ syncRun'.revPending = syncRun.revPending]_vars


\* C38: when the executor has finished the cycle's batch, a symbol without
\* an open position has neither a rubber meta nor a Wave Rider meta file.
C38_NoMetaWithoutPosition ==
    pc = "monitor" =>
        /\ \A s \in RubberSyms : exPos[s] = "none" => rubberMeta[s] = NoMeta
        /\ \A s \in WrSyms : exPos[s] = "none" => wrMeta[s] = NoWr


\* C39: Wave Rider emits at most one new-entry signal per symbol per UTC
\* day.  In SpecConcurrent the cycles of a day run at 15:00 and 15:05, so at
\* 15:05 the batch in signals.json was written earlier the same day: a symbol
\* with a Wave Rider entry in it gets none in the batch written now.
WrEntryIn(batch, s) ==
    \E i \in 1..Len(batch.signals) :
        /\ batch.signals[i].symbol = s
        /\ batch.signals[i].action \in {"long", "short"}
        /\ batch.signals[i].pattern \in WrPatterns
PreviousBatchIsTodays == now % DayMinutes > 900
C39_OneWrEntryPerDay ==
    [][(ScanEnds /\ PreviousBatchIsTodays) =>
         \A s \in WrSyms : WrEntryIn(sigFile, s) => ~WrEntryIn(sigFile', s)]_vars


\* C40: over the same candles and configuration the scan decides the same
\* with the cache of the previous scan (fast path) and without it (slow
\* path).
C40_FastPathAgreesWithSlow == scan.ran => scan.fast = scan.slow

====
